---- MODULE Spec2Model ----
(***************************************************************************)
(* Market-data synchronization and historical-backfill engine of the      *)
(* macro dashboard backend: the MarketCache refresh handlers, the          *)
(* quarterly / monthly upserts, the quarterly calculations and the annual  *)
(* backfill, as state machines over the Cache Store.                       *)
(*                                                                         *)
(* Numbers: an f64 is modelled as an integer count of 1/Unit (1e-4).       *)
(* Time: minutes (UTC) since 00:00 on 1 January of year BaseYear, in a     *)
(* calendar of 365-day years.  Texts that the code builds with format!     *)
(* are records [fmt, year, idx]: "2024Q1" is [fmt |-> "YYYYQn", 2024, 1].  *)
(***************************************************************************)
EXTENDS Integers, Sequences, FiniteSets, TLC

VARIABLES
    now,         \* Utc::now(), in minutes
    cache,       \* the MarketCache row of the Cache Store
    quarterly,   \* the QuarterlyData sheet, a sequence of rows
    monthly,     \* the MonthlyData sheet, a sequence of rows
    historical,  \* the HistoricalData sheet, a sequence of rows
    tasks,       \* the tokio tasks that call get_market_data, and where each stands
    last         \* what the last operation did: calls made, reply, store events

vars == <<now, cache, quarterly, monthly, historical, tasks, last>>

---------------------------------------------------------------------------
(* Bounds of the model *)

BaseYear == 2024
InitDay == 364
MaxDay == 0
MaxFaults == 1
MaxOdd == 1
MaxQuarters == 5

---------------------------------------------------------------------------
(* Numbers and time *)

Unit == 100 * 100

MinutesPerDay == 24 * 60
MinutesPerYear == 365 * MinutesPerDay

SpotIntervalMinutes == 15
TreasuryIntervalMinutes == 60
BlsIntervalMinutes == 60
CloseWindowMinutes == 1
\* NaiveTime::from_hms_opt(15, 30, 0), US/Central
CloseMinuteCentral == 15 * 60 + 30
\* US/Central standard time is UTC-6
CentralOffsetMinutes == 6 * 60
CloseMinuteUtc == CloseMinuteCentral + CentralOffsetMinutes

YearOf(t) == BaseYear + (t \div MinutesPerYear)
CentralMinuteOfDay(t) == (t + MinutesPerDay - CentralOffsetMinutes) % MinutesPerDay

\* the instants at which the clock is observed: around each day's market close
Marks == { CloseMinuteUtc - 60, CloseMinuteUtc, CloseMinuteUtc + 61 }
Instants == { d * MinutesPerDay + m : d \in InitDay..(InitDay + MaxDay), m \in Marks }
InitTime == InitDay * MinutesPerDay + (CloseMinuteUtc - 60)

Abs(x) == IF x < 0 THEN -x ELSE x

\* Option<T>
None == << >>
Some(v) == << v >>
IsSome(o) == Len(o) = 1
Unwrap(o) == o[1]

\* Result<T>: an adapter's answer is Some(value) for Ok(value), None for Err
IsOk(r) == Len(r) = 1

---------------------------------------------------------------------------
(* Texts *)

EmptyText == [fmt |-> "", year |-> 0, idx |-> 0]
QuarterText(y, q) == [fmt |-> "YYYYQn", year |-> y, idx |-> q]
MonthText(y, m) == [fmt |-> "YYYY-MM", year |-> y, idx |-> m]
MonLabel(y, m) == [fmt |-> "Mon YYYY", year |-> y, idx |-> m]

---------------------------------------------------------------------------
(* The Cache Store (DbStore over the sheets): every call may fail *)

StoreOps == { "get_market_cache", "update_market_cache",
              "get_monthly_data", "update_monthly_data",
              "get_quarterly_data", "update_quarterly_data",
              "get_historical_year", "update_historical_record" }

\* the store calls that fail during one run of a handler that makes the calls ops
Plans(ops) == { F \in SUBSET ops : Cardinality(F) <= MaxFaults }
FaultPlans == Plans(StoreOps)
CacheOps == { "get_market_cache", "update_market_cache" }

\* what an operation leaves in `last`
NoCalls == {}
Did(op, called, ok, reply, body, faults, events) ==
    [op |-> op, called |-> called, ok |-> ok, reply |-> reply, body |-> body,
     faults |-> faults, events |-> events, at |-> now]
NoBody == [rate |-> 0]

---------------------------------------------------------------------------
(* Adapters: values the external sources can answer with *)

Rates == { 0, 3 * Unit }
InitRates == { 0, 2 * Unit }
RateAnswers == { None } \cup { Some(r) : r \in Rates }

---------------------------------------------------------------------------
(* handlers/tbill.rs *)

get_tbill_reject_always(c) == TRUE

\* the guard under which a failed fetch is rejected
get_tbill_reject(c) == c.tbill_yield = 0

get_tbill(c0, fetch, faults) ==
    IF "get_market_cache" \in faults
    THEN [row |-> c0,
          last |-> Did("get_tbill", NoCalls, {}, "database_error", NoBody, faults, << >>)]
    ELSE IF c0.timestamps.treasury_data < now - TreasuryIntervalMinutes
    THEN IF IsOk(fetch)
         THEN LET c1 == [c0 EXCEPT !.tbill_yield = Unwrap(fetch),
                                   !.timestamps.treasury_data = now]
                  saved == "update_market_cache" \notin faults
              IN [row |-> IF saved THEN c1 ELSE c0,
                  last |-> Did("get_tbill", {"tbill"}, {"tbill"}, "ok",
                               [rate |-> c1.tbill_yield], faults,
                               << IF saved THEN "update_market_cache" ELSE "update_market_cache failed" >>)]
         ELSE IF get_tbill_reject(c0)
              THEN [row |-> c0,
                    last |-> Did("get_tbill", {"tbill"}, {}, "external_error", NoBody, faults, << >>)]
              ELSE [row |-> c0,
                    last |-> Did("get_tbill", {"tbill"}, {}, "ok",
                                 [rate |-> c0.tbill_yield], faults, << >>)]
    ELSE [row |-> c0,
          last |-> Did("get_tbill", NoCalls, {}, "ok", [rate |-> c0.tbill_yield], faults, << >>)]

GetTbill ==
    \E fetch \in RateAnswers, faults \in Plans(CacheOps) :
        \E r \in { get_tbill(cache, fetch, faults) } :
           /\ cache' = r.row
           /\ last' = r.last
           /\ UNCHANGED <<now, quarterly, monthly, historical, tasks>>

---------------------------------------------------------------------------
(* handlers/inflation.rs *)

get_inflation(c0, fetch, faults) ==
    IF "get_market_cache" \in faults
    THEN [row |-> c0,
          last |-> Did("get_inflation", NoCalls, {}, "database_error", NoBody, faults, << >>)]
    ELSE IF c0.timestamps.bls_data < now - BlsIntervalMinutes
    THEN IF IsOk(fetch)
         THEN LET c1 == [c0 EXCEPT !.inflation_rate = Unwrap(fetch),
                                   !.timestamps.bls_data = now]
                  saved == "update_market_cache" \notin faults
              IN [row |-> IF saved THEN c1 ELSE c0,
                  last |-> Did("get_inflation", {"inflation"}, {"inflation"}, "ok",
                               [rate |-> c1.inflation_rate], faults,
                               << IF saved THEN "update_market_cache" ELSE "update_market_cache failed" >>)]
         ELSE IF c0.inflation_rate = 0
              THEN [row |-> c0,
                    last |-> Did("get_inflation", {"inflation"}, {}, "external_error", NoBody, faults, << >>)]
              ELSE [row |-> c0,
                    last |-> Did("get_inflation", {"inflation"}, {}, "ok",
                                 [rate |-> c0.inflation_rate], faults, << >>)]
    ELSE [row |-> c0,
          last |-> Did("get_inflation", NoCalls, {}, "ok", [rate |-> c0.inflation_rate], faults, << >>)]

GetInflation ==
    \E fetch \in RateAnswers, faults \in Plans(CacheOps) :
        \E r \in { get_inflation(cache, fetch, faults) } :
           /\ cache' = r.row
           /\ last' = r.last
           /\ UNCHANGED <<now, quarterly, monthly, historical, tasks>>

---------------------------------------------------------------------------
(* handlers/long_term.rs *)

real_tbill(c) ==
    IF c.tbill_yield # 0 /\ c.inflation_rate # 0
    THEN c.tbill_yield - c.inflation_rate
    ELSE 0

long_term_body(c) ==
    [bond_yield_20y |-> c.bond_yield_20y, tips_yield_20y |-> c.tips_yield_20y,
     real_tbill |-> real_tbill(c),
     treasury |-> c.timestamps.treasury_data, bls |-> c.timestamps.bls_data]

get_long_term_rates(c0, bond, tips, faults) ==
    IF "get_market_cache" \in faults
    THEN [row |-> c0,
          last |-> Did("get_long_term_rates", NoCalls, {}, "database_error", NoBody, faults, << >>)]
    ELSE IF c0.timestamps.treasury_data < now - TreasuryIntervalMinutes
    THEN LET c1 == IF IsOk(bond) THEN [c0 EXCEPT !.bond_yield_20y = Unwrap(bond)] ELSE c0
             failed1 == ~IsOk(bond) /\ c1.bond_yield_20y = 0
             c2 == IF IsOk(tips) THEN [c1 EXCEPT !.tips_yield_20y = Unwrap(tips)] ELSE c1
             update_failed == failed1 \/ (~IsOk(tips) /\ c2.tips_yield_20y = 0)
             c3 == [c2 EXCEPT !.timestamps.treasury_data = now]
             saved == "update_market_cache" \notin faults
             called == {"bond_20y", "tips_20y"}
             ok == { a \in called : IF a = "bond_20y" THEN IsOk(bond) ELSE IsOk(tips) }
         IN IF ~update_failed
            THEN [row |-> IF saved THEN c3 ELSE c0,
                  last |-> Did("get_long_term_rates", called, ok, "ok", long_term_body(c3), faults,
                               << IF saved THEN "update_market_cache" ELSE "update_market_cache failed" >>)]
            ELSE IF c2.bond_yield_20y = 0 /\ c2.tips_yield_20y = 0
                 THEN [row |-> c0,
                       last |-> Did("get_long_term_rates", called, ok, "external_error", NoBody, faults, << >>)]
                 ELSE [row |-> c0,
                       last |-> Did("get_long_term_rates", called, ok, "ok", long_term_body(c2), faults, << >>)]
    ELSE [row |-> c0,
          last |-> Did("get_long_term_rates", NoCalls, {}, "ok", long_term_body(c0), faults, << >>)]

GetLongTermRates ==
    \E bond \in RateAnswers, tips \in RateAnswers, faults \in Plans(CacheOps) :
        \E r \in { get_long_term_rates(cache, bond, tips, faults) } :
           /\ cache' = r.row
           /\ last' = r.last
           /\ UNCHANGED <<now, quarterly, monthly, historical, tasks>>

---------------------------------------------------------------------------
(* Sorting: slice::sort_by is a stable sort *)

\* lexicographic order on the (i32, i32) keys of parse_quarter
KeyLess(a, b) == a[1] < b[1] \/ (a[1] = b[1] /\ a[2] < b[2])

\* x inserted behind every element whose key is not greater than its own
InsertByKey(t, x) ==
    LET n == Cardinality({ i \in 1..Len(t) : ~KeyLess(x.key, t[i].key) })
    IN SubSeq(t, 1, n) \o << x >> \o SubSeq(t, n + 1, Len(t))

\* a sequence of [key, row], sorted by key
RECURSIVE SortKeyed(_)
SortKeyed(s) ==
    IF s = << >> THEN << >>
    ELSE InsertByKey(SortKeyed(SubSeq(s, 1, Len(s) - 1)), s[Len(s)])

StableSort(s, Key(_)) ==
    LET keyed == SortKeyed([i \in 1..Len(s) |-> [key |-> Key(s[i]), row |-> s[i]]])
    IN [i \in 1..Len(s) |-> keyed[i].row]

---------------------------------------------------------------------------
(* services/equity.rs: the quarterly table *)

QuarterlyData(q, d, a, e) ==
    [quarter |-> q, dividend |-> d, eps_actual |-> a, eps_estimated |-> e]

\* parse_quarter of get_quarterly_calculations: q[..4] and q[5..]
parse_quarter_calc(row) ==
    IF row.quarter.fmt \in {"YYYYQn", "YYYY-MM"}
    THEN << row.quarter.year, row.quarter.idx >>
    ELSE << 0, 0 >>

\* parse_quarter of update_quarterly_data: q.get(0..4) and q.get(4..6); the
\* second slice of "2024Q1" is "Q1", which is no i32, and that of "2024-12" is "-1"
parse_quarter_update(row) ==
    IF row.quarter.fmt = "YYYYQn" THEN << row.quarter.year, 0 >>
    ELSE IF row.quarter.fmt = "YYYY-MM" THEN << row.quarter.year, 0 - (row.quarter.idx \div 10) >>
    ELSE << 0, 0 >>

Epsilon == Unit \div 1000

SetFieldOnly(row, data_type, value) ==
    IF data_type = "dividend" THEN QuarterlyData(row.quarter, Some(value), None, None)
    ELSE IF data_type = "eps_actual" THEN QuarterlyData(row.quarter, None, Some(value), None)
    ELSE IF data_type = "eps_estimated" THEN QuarterlyData(row.quarter, None, None, Some(value))
    ELSE row

SetField(row, data_type, value) ==
    IF data_type = "dividend" THEN [row EXCEPT !.dividend = Some(value)]
    ELSE IF data_type = "eps_actual" THEN [row EXCEPT !.eps_actual = Some(value)]
    ELSE IF data_type = "eps_estimated" THEN [row EXCEPT !.eps_estimated = Some(value)]
    ELSE row

FieldOf(row, data_type) ==
    IF data_type = "dividend" THEN row.dividend
    ELSE IF data_type = "eps_actual" THEN row.eps_actual
    ELSE IF data_type = "eps_estimated" THEN row.eps_estimated
    ELSE None

needs_update_always(old, value) == TRUE

\* entry.x.is_none() || (entry.x.unwrap() - *value).abs() > 0.001
needs_update(old, value) == ~IsSome(old) \/ Abs(Unwrap(old) - value) > Epsilon

KnownType(data_type) == data_type \in {"dividend", "eps_actual", "eps_estimated"}

\* one iteration of the loop over the entries: [data, updates_made]
apply_entry(st, quarter, value, data_type) ==
    LET hits == { i \in 1..Len(st.data) : st.data[i].quarter = quarter }
    IN IF hits # {}
       THEN LET i == CHOOSE k \in hits : \A j \in hits : k <= j
            IN IF KnownType(data_type) /\ needs_update(FieldOf(st.data[i], data_type), value)
               THEN [data |-> [st.data EXCEPT ![i] = SetField(@, data_type, value)],
                     updates_made |-> TRUE]
               ELSE st
       ELSE [data |-> Append(st.data, SetField(QuarterlyData(quarter, None, None, None),
                                               data_type, value)),
             updates_made |-> TRUE]

RECURSIVE apply_entries(_, _, _)
apply_entries(st, entries, data_type) ==
    IF entries = << >> THEN st
    ELSE apply_entries(apply_entry(st, entries[1].quarter, entries[1].value, data_type),
                       Tail(entries), data_type)

\* entries: the HashMap in iteration order, a sequence of [quarter, value]
update_quarterly_data(table, entries, data_type, faults) ==
    IF entries = << >>
    THEN [table |-> table, result |-> "ok", events |-> << >>]
    ELSE IF "get_quarterly_data" \in faults
    THEN [table |-> table, result |-> "err", events |-> << >>]
    ELSE LET st == apply_entries([data |-> table, updates_made |-> FALSE], entries, data_type)
         IN IF st.updates_made
            THEN IF "update_quarterly_data" \in faults
                 THEN [table |-> table, result |-> "err",
                       events |-> << "update_quarterly_data failed" >>]
                 ELSE [table |-> StableSort(st.data, parse_quarter_update), result |-> "ok",
                       events |-> << "update_quarterly_data" >>]
            ELSE [table |-> table, result |-> "ok", events |-> << >>]

---------------------------------------------------------------------------
(* services/db.rs: the MarketCache as DbStore reads and writes it *)

Timestamps(t) == [yahoo_price |-> t, ycharts_data |-> t, treasury_data |-> t, bls_data |-> t]

\* a column of the quarterly table as a HashMap: a later row's insert wins
ColumnMap(table, data_type) ==
    LET have == { i \in 1..Len(table) : IsSome(FieldOf(table[i], data_type)) }
    IN [k \in { table[i].quarter : i \in have } |->
           Unwrap(FieldOf(table[CHOOSE i \in have :
                                    /\ table[i].quarter = k
                                    /\ \A j \in have : table[j].quarter = k => j <= i],
                          data_type))]

\* the row of the cache sheet together with the maps built from the quarterly table
get_market_cache(raw, table) ==
    [timestamps |-> raw.timestamps,
     daily_close_sp500_price |-> raw.daily_close_sp500_price,
     current_sp500_price |-> raw.current_sp500_price,
     quarterly_dividends |-> ColumnMap(table, "dividend"),
     eps_actual |-> ColumnMap(table, "eps_actual"),
     eps_estimated |-> ColumnMap(table, "eps_estimated"),
     current_cape |-> raw.current_cape,
     cape_period |-> raw.cape_period,
     tips_yield_20y |-> raw.tips_yield_20y,
     bond_yield_20y |-> raw.bond_yield_20y,
     tbill_yield |-> raw.tbill_yield,
     inflation_rate |-> raw.inflation_rate,
     latest_month |-> raw.latest_month,
     latest_monthly_return |-> raw.latest_monthly_return]

\* the row that a write of the MarketCache leaves in the cache sheet
update_market_cache(c) ==
    [timestamps |-> c.timestamps,
     daily_close_sp500_price |-> c.daily_close_sp500_price,
     current_sp500_price |-> c.current_sp500_price,
     current_cape |-> c.current_cape,
     cape_period |-> c.cape_period,
     tips_yield_20y |-> c.tips_yield_20y,
     bond_yield_20y |-> c.bond_yield_20y,
     tbill_yield |-> c.tbill_yield,
     inflation_rate |-> c.inflation_rate,
     latest_month |-> c.latest_month,
     latest_monthly_return |-> c.latest_monthly_return]

---------------------------------------------------------------------------
(* services/equity.rs: the monthly table *)

MonthlyData(m, r) == [month |-> m, total_return |-> r]

\* a.month.cmp(&b.month) on the texts: the year's digits, then '-' before 'Q'
month_key(row) ==
    << row.month.year,
       IF row.month.fmt = "YYYY-MM" THEN row.month.idx ELSE 100 + row.month.idx >>

month_exists_never(table, month) == FALSE

month_exists(table, month) == \E i \in 1..Len(table) : table[i].month = month

update_monthly_data(table, month, return_value, faults) ==
    IF "get_monthly_data" \in faults
    THEN [table |-> table, result |-> "err", events |-> << >>]
    ELSE IF ~month_exists(table, month)
    THEN IF "update_monthly_data" \in faults
         THEN [table |-> table, result |-> "err", events |-> << "update_monthly_data failed" >>]
         ELSE [table |-> StableSort(Append(table, MonthlyData(month, return_value)), month_key),
               result |-> "ok", events |-> << "update_monthly_data" >>]
    ELSE [table |-> table, result |-> "ok", events |-> << >>]

---------------------------------------------------------------------------
(* services/equity.rs: get_quarterly_calculations *)

QuarterlyValue(q, v) == [final_quarter |-> q, value |-> v]

ttm_marks_final_quarter_oldest(quarters_found) == quarters_found = 3

\* if quarters_found == 0 { final_quarter = Some(record.quarter.clone()) }
ttm_marks_final_quarter(quarters_found) == quarters_found = 0

\* for record in sorted_data.iter().rev(): i runs from the last row down
RECURSIVE ttm_walk(_, _, _)
ttm_walk(sorted_data, i, acc) ==
    IF i = 0 \/ acc.quarters_found = 4 THEN acc
    ELSE IF IsSome(sorted_data[i].dividend)
    THEN ttm_walk(sorted_data, i - 1,
                  [quarters_found |-> acc.quarters_found + 1,
                   sum |-> acc.sum + Unwrap(sorted_data[i].dividend),
                   final_quarter |-> IF ttm_marks_final_quarter(acc.quarters_found)
                                     THEN Some(sorted_data[i].quarter)
                                     ELSE acc.final_quarter])
    ELSE ttm_walk(sorted_data, i - 1, acc)

ttm_dividend_counting_rows(sorted_data) ==
    LET n == Len(sorted_data)
        rows == { i \in 1..n : i > n - 4 }
        acc == ttm_walk(sorted_data, n,
                        [quarters_found |-> 0, sum |-> 0, final_quarter |-> None])
    IN IF Cardinality(rows) = 4 /\ acc.quarters_found > 0
       THEN Some(QuarterlyValue(Unwrap(acc.final_quarter), acc.sum))
       ELSE None

\* if quarters_found == 4 { Some(QuarterlyValue { .. }) } else { None }
ttm_dividend(sorted_data) ==
    LET acc == ttm_walk(sorted_data, Len(sorted_data),
                        [quarters_found |-> 0, sum |-> 0, final_quarter |-> None])
    IN IF acc.quarters_found = 4
       THEN Some(QuarterlyValue(Unwrap(acc.final_quarter), acc.sum))
       ELSE None

latest_eps_actual_earliest(sorted_data) ==
    LET have == { i \in 1..Len(sorted_data) : IsSome(sorted_data[i].eps_actual) }
    IN IF have = {} THEN None
       ELSE LET i == CHOOSE k \in have : \A j \in have : k <= j
            IN Some(QuarterlyValue(sorted_data[i].quarter, Unwrap(sorted_data[i].eps_actual)))

\* sorted_data.iter().rev().find(|record| record.eps_actual.is_some())
latest_eps_actual(sorted_data) ==
    LET have == { i \in 1..Len(sorted_data) : IsSome(sorted_data[i].eps_actual) }
    IN IF have = {} THEN None
       ELSE LET i == CHOOSE k \in have : \A j \in have : j <= k
            IN Some(QuarterlyValue(sorted_data[i].quarter, Unwrap(sorted_data[i].eps_actual)))

\* while current_idx < sorted_data.len() && quarters_found < 4
RECURSIVE est_walk(_, _, _)
est_walk(sorted_data, current_idx, acc) ==
    IF current_idx > Len(sorted_data) \/ acc.quarters_found = 4 THEN acc
    ELSE IF IsSome(sorted_data[current_idx].eps_estimated)
    THEN est_walk(sorted_data, current_idx + 1,
                  [quarters_found |-> acc.quarters_found + 1,
                   sum |-> acc.sum + Unwrap(sorted_data[current_idx].eps_estimated),
                   consecutive_quarters |-> acc.consecutive_quarters])
    ELSE [acc EXCEPT !.consecutive_quarters = FALSE]

est_final_quarter_idx_first(current_idx) == current_idx

\* final_quarter = Some(sorted_data[current_idx + 3].quarter.clone())
est_final_quarter_idx(current_idx) == current_idx + 3

\* [panic, value]: sorted_data[current_idx + 3] is read in the first iteration
estimated_eps_sum(sorted_data) ==
    LET have == { i \in 1..Len(sorted_data) : IsSome(sorted_data[i].eps_estimated) }
    IN IF have = {} THEN [panic |-> FALSE, value |-> None]
       ELSE LET start_idx == CHOOSE k \in have : \A j \in have : k <= j
            IN IF est_final_quarter_idx(start_idx) > Len(sorted_data)
               THEN [panic |-> TRUE, value |-> None]
               ELSE LET acc == est_walk(sorted_data, start_idx,
                                        [quarters_found |-> 0, sum |-> 0,
                                         consecutive_quarters |-> TRUE])
                    IN [panic |-> FALSE,
                        value |-> IF acc.quarters_found = 4 /\ acc.consecutive_quarters
                                  THEN Some(QuarterlyValue(sorted_data[
                                                est_final_quarter_idx(start_idx)].quarter,
                                                           acc.sum))
                                  ELSE None]

NoCalculations ==
    [ttm_dividend |-> None, latest_eps_actual |-> None, estimated_eps_sum |-> None]

get_quarterly_calculations(table, faults) ==
    IF "get_quarterly_data" \in faults
    THEN [result |-> "err", values |-> NoCalculations]
    ELSE LET sorted_data == StableSort(table, parse_quarter_calc)
             est == estimated_eps_sum(sorted_data)
         IN IF est.panic
            THEN [result |-> "panic", values |-> NoCalculations]
            ELSE [result |-> "ok",
                  values |-> [ttm_dividend |-> ttm_dividend(sorted_data),
                              latest_eps_actual |-> latest_eps_actual(sorted_data),
                              estimated_eps_sum |-> est.value]]

---------------------------------------------------------------------------
(* services/equity.rs: the fundamentals batch *)

\* the text of a page's key stat: "<value>[%] for Q<idx> <year>" or
\* "<value>[%] for <Mon> <year>"
Stat(value, percent, kind, year, idx) ==
    [value |-> value, percent |-> percent, kind |-> kind, year |-> year, idx |-> idx]

\* page: None when the request or the parse fails, else Some(stat)
fetch_ycharts_value(page) ==
    IF ~IsOk(page) THEN None
    ELSE LET stat == Unwrap(page)
             period_text == IF stat.kind = "Q"
                            THEN QuarterText(stat.year, stat.idx)
                            ELSE MonthText(stat.year, stat.idx)
             final_value == IF stat.percent THEN stat.value \div 100 ELSE stat.value
         IN Some([period |-> period_text, value |-> final_value])

\* let mut cape = (0.0, String::new()); if let Ok(..) = fetch { cape = (value, period) }
cape_of_batch(found) ==
    IF IsOk(found) THEN Unwrap(found) ELSE [period |-> EmptyText, value |-> 0]

Entry(found) ==
    IF IsOk(found) THEN << [quarter |-> Unwrap(found).period, value |-> Unwrap(found).value] >>
    ELSE << >>

fetch_ycharts_data(pages) ==
    LET monthly_found == fetch_ycharts_value(pages.monthly_return)
    IN [quarterly_dividends |-> Entry(fetch_ycharts_value(pages.dividend)),
        eps_actual |-> Entry(fetch_ycharts_value(pages.eps_actual)),
        eps_estimated |-> Entry(fetch_ycharts_value(pages.eps_estimated)),
        cape |-> cape_of_batch(fetch_ycharts_value(pages.cape)),
        monthly_return |-> IF IsOk(monthly_found)
                           THEN Some([period |-> Unwrap(monthly_found).period,
                                      value |-> Unwrap(monthly_found).value \div 100])
                           ELSE None]

RECURSIVE insert_all(_, _)
insert_all(map, entries) ==
    IF entries = << >> THEN map
    ELSE insert_all([k \in DOMAIN map \cup {entries[1].quarter} |->
                        IF k = entries[1].quarter THEN entries[1].value ELSE map[k]],
                    Tail(entries))

update_cache_from_ycharts(c, y) ==
    LET c1 == [c EXCEPT !.quarterly_dividends = insert_all(@, y.quarterly_dividends),
                        !.eps_actual = insert_all(@, y.eps_actual),
                        !.eps_estimated = insert_all(@, y.eps_estimated)]
        c2 == IF IsSome(y.monthly_return)
              THEN [c1 EXCEPT !.latest_month = Unwrap(y.monthly_return).period,
                              !.latest_monthly_return = Unwrap(y.monthly_return).value]
              ELSE c1
    IN [c2 EXCEPT !.current_cape = y.cape.value, !.cape_period = y.cape.period]

should_update_daily(t) ==
    /\ CentralMinuteOfDay(t) >= CloseMinuteCentral
    /\ CentralMinuteOfDay(t) < CloseMinuteCentral + CloseWindowMinutes

---------------------------------------------------------------------------
(* services/equity.rs: the annual backfill *)

\* a dividend yield is the quotient num / den; a total return is the sequence
\* r1..rn of its monthly returns and stands for (1 + r1) * ... * (1 + rn) - 1
ZeroYield == [num |-> 0, den |-> 1]
ZeroReturn == << >>

HistoricalRecord(year) ==
    [year |-> year, sp500_price |-> 0, dividend |-> 0, dividend_yield |-> ZeroYield,
     eps |-> 0, cape |-> 0, inflation |-> 0, total_return |-> ZeroReturn,
     cumulative_return |-> 0]

starts_with_year(text, year) == text.fmt = "YYYY-MM" /\ text.year = year

compute_yearly_return_at_least(monthly_data, year) ==
    LET year_returns == SelectSeq(monthly_data, LAMBDA m : starts_with_year(m.month, year))
    IN IF Len(year_returns) >= 12
       THEN Some([n \in 1..Len(year_returns) |-> year_returns[n].total_return])
       ELSE None

\* if year_returns.len() == 12 { Some(fold of (1.0 + r) - 1.0) } else { None }
compute_yearly_return(monthly_data, year) ==
    LET idxs == { i \in 1..Len(monthly_data) : starts_with_year(monthly_data[i].month, year) }
        F[n \in 0..Len(monthly_data)] ==
            IF n = 0 THEN << >>
            ELSE IF n \in idxs THEN Append(F[n - 1], monthly_data[n].total_return)
            ELSE F[n - 1]
        year_returns == F[Len(monthly_data)]
    IN IF Len(year_returns) = 12 THEN Some(year_returns) ELSE None

\* eps_sum += eps / div_sum += div for the quarters the map holds
SumOver(map, year) ==
    LET F[q \in 0..4] ==
            IF q = 0 THEN 0
            ELSE F[q - 1] + (IF QuarterText(year, q) \in DOMAIN map
                             THEN map[QuarterText(year, q)] ELSE 0)
    IN F[4]

Complete_any(map, year) == \E q \in 1..4 : QuarterText(year, q) \in DOMAIN map

\* have_complete_* stays true only when no quarter of the year is missing
Complete(map, year) == \A q \in 1..4 : QuarterText(year, q) \in DOMAIN map

update_historical_record_appending(table, record, faults) ==
    IF "update_historical_record" \in faults
    THEN [table |-> table, result |-> "err",
          events |-> << "update_historical_record failed" >>]
    ELSE [table |-> Append(table, record), result |-> "ok",
          events |-> << "update_historical_record" >>]

\* SheetsStore::update_historical_record: the row of the record's year is rewritten
update_historical_record(table, record, faults) ==
    LET hits == { i \in 1..Len(table) : table[i].year = record.year }
    IN IF "update_historical_record" \in faults \/ hits = {}
       THEN [table |-> table, result |-> "err",
             events |-> << "update_historical_record failed" >>]
       ELSE LET row_index == CHOOSE k \in hits : \A j \in hits : k <= j
            IN [table |-> [table EXCEPT ![row_index] = record], result |-> "ok",
                events |-> << "update_historical_record" >>]

get_historical_year_none(table, year) == None

\* the first record of the year, None when the table has none
get_historical_year(table, year) ==
    LET hits == { i \in 1..Len(table) : table[i].year = year }
    IN IF hits = {} THEN None
       ELSE Some(table[CHOOSE k \in hits : \A j \in hits : k <= j])

year_changed_ignoring_price(c) == YearOf(c.timestamps.yahoo_price) < YearOf(now)

\* last_update.year() < current_date.year() && cache.daily_close_sp500_price > 0.0
year_changed(c) ==
    /\ YearOf(c.timestamps.yahoo_price) < YearOf(now)
    /\ c.daily_close_sp500_price > 0

cape_label_november(prev_year) == MonLabel(prev_year, 11)

\* format!("Dec {}", prev_year)
cape_label(prev_year) == MonLabel(prev_year, 12)

check_historical_updates(c, monthly_data, table, faults) ==
    LET prev_year == YearOf(now) - 1
        found == get_historical_year(table, prev_year)
        r0 == IF IsSome(found) THEN Unwrap(found) ELSE HistoricalRecord(prev_year)
        q4_key == QuarterText(prev_year, 4)
        gate == q4_key \in DOMAIN c.eps_actual \/ q4_key \in DOMAIN c.quarterly_dividends
        have_complete_eps == gate /\ Complete(c.eps_actual, prev_year)
        have_complete_div == gate /\ Complete(c.quarterly_dividends, prev_year)
        r1 == IF have_complete_eps THEN [r0 EXCEPT !.eps = SumOver(c.eps_actual, prev_year)] ELSE r0
        r2 == IF have_complete_div
              THEN [r1 EXCEPT !.dividend = SumOver(c.quarterly_dividends, prev_year)] ELSE r1
        r3 == IF year_changed(c) THEN [r2 EXCEPT !.sp500_price = c.daily_close_sp500_price] ELSE r2
        yearly_return == compute_yearly_return(monthly_data, prev_year)
        r4 == IF IsSome(yearly_return) THEN [r3 EXCEPT !.total_return = Unwrap(yearly_return)] ELSE r3
        december == c.cape_period = cape_label(prev_year)
        r5 == IF december THEN [r4 EXCEPT !.cape = c.current_cape] ELSE r4
        updates_needed == \/ have_complete_eps \/ have_complete_div \/ year_changed(c)
                          \/ IsSome(yearly_return) \/ december
        r6 == IF r5.sp500_price > 0 /\ r5.dividend > 0
              THEN [r5 EXCEPT !.dividend_yield = [num |-> r5.dividend, den |-> r5.sp500_price]]
              ELSE r5
    IN IF "get_historical_year" \in faults \/ "get_monthly_data" \in faults
       THEN [table |-> table, result |-> "err", events |-> << >>]
       ELSE IF updates_needed
       THEN update_historical_record(table, r6, faults)
       ELSE [table |-> table, result |-> "ok", events |-> << >>]

---------------------------------------------------------------------------
(* services/equity.rs: get_market_data *)

MarketData(c, v) ==
    [daily_close_sp500_price |-> c.daily_close_sp500_price,
     current_sp500_price |-> c.current_sp500_price,
     ttm_dividend |-> v.ttm_dividend,
     latest_eps_actual |-> v.latest_eps_actual,
     estimated_eps_sum |-> v.estimated_eps_sum,
     cape |-> c.current_cape,
     cape_period |-> c.cape_period,
     last_update |-> c.timestamps.ycharts_data]

Untouched(table) == [table |-> table, result |-> "ok", events |-> << >>]

Out(row, q, m, h, l) == [row |-> row, quarterly |-> q, monthly |-> m, historical |-> h, last |-> l]

\* a: the adapters' answers [spot_initial, spot_interval, spot_daily, pages]
get_market_data(a, faults) ==
    IF "get_market_cache" \in faults
    THEN Out(cache, quarterly, monthly, historical,
             Did("get_market_data", NoCalls, {}, "err", NoBody, faults, << >>))
    ELSE
    LET c0 == get_market_cache(cache, quarterly)
        initial == c0.current_sp500_price = 0
        c1 == IF initial /\ IsOk(a.spot_initial)
              THEN [c0 EXCEPT !.current_sp500_price = Unwrap(a.spot_initial),
                              !.timestamps.yahoo_price = now]
              ELSE c0
        interval == c1.timestamps.yahoo_price < now - SpotIntervalMinutes
        c2 == IF interval /\ IsOk(a.spot_interval)
              THEN [c1 EXCEPT !.current_sp500_price = Unwrap(a.spot_interval),
                              !.timestamps.yahoo_price = now]
              ELSE c1
        daily == should_update_daily(now)
        c3 == IF daily /\ IsOk(a.spot_daily)
              THEN [c2 EXCEPT !.daily_close_sp500_price = Unwrap(a.spot_daily),
                              !.current_sp500_price = Unwrap(a.spot_daily)]
              ELSE c2
        y == fetch_ycharts_data(a.pages)
        m1 == IF daily /\ IsSome(y.monthly_return)
              THEN update_monthly_data(monthly, Unwrap(y.monthly_return).period,
                                       Unwrap(y.monthly_return).value, faults)
              ELSE Untouched(monthly)
        q1 == IF daily
              THEN update_quarterly_data(quarterly, y.quarterly_dividends, "dividend", faults)
              ELSE Untouched(quarterly)
        q2 == IF daily
              THEN update_quarterly_data(q1.table, y.eps_actual, "eps_actual", faults)
              ELSE Untouched(quarterly)
        q3 == IF daily
              THEN update_quarterly_data(q2.table, y.eps_estimated, "eps_estimated", faults)
              ELSE Untouched(quarterly)
        c4 == IF daily
              THEN [update_cache_from_ycharts(c3, y) EXCEPT !.timestamps.ycharts_data = now]
              ELSE c3
        data_updated == \/ initial /\ IsOk(a.spot_initial)
                        \/ interval /\ IsOk(a.spot_interval)
                        \/ daily
        called == (IF initial THEN {"spot_initial"} ELSE {})
                  \cup (IF interval THEN {"spot_interval"} ELSE {})
                  \cup (IF daily THEN {"spot_daily", "dividend", "eps_actual", "eps_estimated",
                                       "cape", "monthly_return"} ELSE {})
        answers == [spot_initial |-> a.spot_initial, spot_interval |-> a.spot_interval,
                    spot_daily |-> a.spot_daily, dividend |-> a.pages.dividend,
                    eps_actual |-> a.pages.eps_actual, eps_estimated |-> a.pages.eps_estimated,
                    cape |-> a.pages.cape, monthly_return |-> a.pages.monthly_return]
        ok == { n \in called : IsOk(answers[n]) }
        sheet_events == m1.events \o q1.events \o q2.events \o q3.events
        calc == get_quarterly_calculations(q3.table, faults)
        finish(row, h, events) ==
            Out(row, q3.table, m1.table, h,
                Did("get_market_data", called, ok, calc.result,
                    IF calc.result = "ok" THEN MarketData(c4, calc.values) ELSE NoBody,
                    faults, events))
    IN IF data_updated
       THEN IF "update_market_cache" \in faults
            THEN Out(cache, q3.table, m1.table, historical,
                     Did("get_market_data", called, ok, "err", NoBody, faults,
                         sheet_events \o << "update_market_cache failed" >>))
            ELSE LET h == check_historical_updates(c4, m1.table, historical, faults)
                     events == sheet_events \o << "update_market_cache", "check_historical_updates" >>
                                   \o h.events
                 IN IF h.result = "err"
                    THEN Out(update_market_cache(c4), q3.table, m1.table, h.table,
                             Did("get_market_data", called, ok, "err", NoBody, faults, events))
                    ELSE finish(update_market_cache(c4), h.table, events)
       ELSE finish(cache, historical, sheet_events)

Prices == { 5 * Unit }
SpotAnswers == { None } \cup { Some(p) : p \in Prices }

DividendPages == { None, Some(Stat(2 * Unit, FALSE, "Q", BaseYear, 4)) }
EpsActualPages == { None, Some(Stat(6 * Unit, FALSE, "Q", BaseYear, 4)) }
EpsEstimatedPages == { None, Some(Stat(7 * Unit, FALSE, "Q", BaseYear + 1, 1)) }
CapePages == { None, Some(Stat(30 * Unit, FALSE, "Mon", BaseYear, 12)) }
MonthlyReturnPages == { None, Some(Stat(2 * Unit * 100, TRUE, "Mon", BaseYear, 12)) }

NoPages ==
    [dividend |-> None, eps_actual |-> None, eps_estimated |-> None,
     cape |-> None, monthly_return |-> None]

AllPages ==
    [dividend : DividendPages, eps_actual : EpsActualPages, eps_estimated : EpsEstimatedPages,
     cape : CapePages, monthly_return : MonthlyReturnPages]

PageNames == { "dividend", "eps_actual", "eps_estimated", "cape", "monthly_return" }
Failing(pages) == { n \in PageNames : ~IsOk(pages[n]) }

\* the batches in which at most MaxOdd pages fare differently from the rest
Pages ==
    { pages \in AllPages : \/ Cardinality(Failing(pages)) <= MaxOdd
                           \/ Cardinality(PageNames \ Failing(pages)) <= MaxOdd }

GetMarketData ==
    /\ last.at < now
    /\ \E faults \in FaultPlans :
       \E s1 \in (IF cache.current_sp500_price = 0 THEN SpotAnswers ELSE { None }) :
       \E s2 \in (IF cache.timestamps.yahoo_price < now - SpotIntervalMinutes
                   THEN SpotAnswers ELSE { None }) :
       \E s3 \in (IF should_update_daily(now) THEN SpotAnswers ELSE { None }) :
       \E pages \in (IF should_update_daily(now) THEN Pages ELSE { NoPages }) :
           \E r \in { get_market_data([spot_initial |-> s1, spot_interval |-> s2,
                                     spot_daily |-> s3, pages |-> pages], faults) } :
              /\ cache' = r.row
              /\ quarterly' = r.quarterly
              /\ monthly' = r.monthly
              /\ historical' = r.historical
              /\ last' = r.last
              /\ UNCHANGED <<now, tasks>>

---------------------------------------------------------------------------
(* main.rs and handlers/equity.rs: the tasks that call get_market_data *)

\* the cron job, the start-up task, and a request being served
Callers == { "daily_job", "catch_up", "http" }

NoTasks == [c \in Callers |-> [pc |-> "idle"]]

---------------------------------------------------------------------------
(* The clock *)

Tick ==
    /\ \E t \in Instants : t > now /\ now' = t
    /\ UNCHANGED <<cache, quarterly, monthly, historical, last, tasks>>

---------------------------------------------------------------------------
(* Initial states: the sheets as bin/init_sheets.rs leaves them *)

\* the MarketCache row as initialize_market_data writes it
RawMarketCache(t, months, rates) ==
    [timestamps |-> Timestamps(t),
     daily_close_sp500_price |-> 0,
     current_sp500_price |-> 0,
     current_cape |-> 29 * Unit,
     cape_period |-> MonLabel(BaseYear - 1, 12),
     tips_yield_20y |-> rates.tips,
     bond_yield_20y |-> rates.bond,
     tbill_yield |-> rates.tbill,
     inflation_rate |-> rates.inflation,
     latest_month |-> IF months = << >> THEN EmptyText ELSE months[Len(months)].month,
     latest_monthly_return |-> IF months = << >> THEN 0 ELSE months[Len(months)].total_return]

ThreeQuarters ==
    [q \in 1..3 |-> QuarterlyData(QuarterText(BaseYear, q), Some(2 * Unit), Some(6 * Unit), None)]
ElevenMonths == [m \in 1..11 |-> MonthlyData(MonthText(BaseYear, m), 100)]

InitQuarterlyTables == { << >>, ThreeQuarters }
\* the monthly sheet and the historical sheet, either both fresh or both kept up
InitYearTables ==
    { [monthly |-> << >>, historical |-> << >>],
      [monthly |-> ElevenMonths,
       historical |-> << HistoricalRecord(BaseYear - 1), HistoricalRecord(BaseYear) >>] }

Idle == [Did("none", NoCalls, {}, "none", NoBody, {}, << >>) EXCEPT !.at = InitTime - 1]

Init ==
    /\ now = InitTime
    /\ quarterly \in InitQuarterlyTables
    /\ \E y \in InitYearTables : monthly = y.monthly /\ historical = y.historical
    /\ cache = RawMarketCache(InitTime, monthly,
                              [tips |-> 2 * Unit, bond |-> 2 * Unit, tbill |-> 2 * Unit,
                            inflation |-> 2 * Unit])
    /\ tasks = NoTasks
    /\ last = Idle

Next == Tick \/ GetMarketData

Spec == Init /\ [][Next]_vars

---------------------------------------------------------------------------
(* Properties of Synchronize (get_market_data) *)

\* the fetches that feed each timestamp of the MarketCache
SourceFetches ==
    [yahoo_price |-> {"spot_initial", "spot_interval", "spot_daily"},
     ycharts_data |-> PageNames,
     treasury_data |-> {"tbill", "bond_20y", "tips_20y"},
     bls_data |-> {"inflation"}]

FailedWrites ==
    { "update_monthly_data failed", "update_quarterly_data failed",
      "update_market_cache failed", "update_historical_record failed" }

Happened(l, event) == \E i \in 1..Len(l.events) : l.events[i] = event

\* C1: a source's timestamp changes only in a step in which a fetch of
\* that same source succeeded; a refresh whose fetches of the source all
\* failed leaves the timestamp as it was.
C1_TimestampOnlyOnSuccess ==
    [][\A s \in DOMAIN SourceFetches :
          cache'.timestamps[s] # cache.timestamps[s]
              => (last'.ok \cap SourceFetches[s]) # {}]_vars

\* the MarketCache as the next read of the store returns it
Cached == get_market_cache(cache, quarterly)

\* C2: an observation absent from the fundamentals batch leaves the
\* corresponding cached value unchanged; a batch without a CAPE observation
\* leaves current_cape and cape_period at their previous values.
C2_AbsentObservationKeepsCache ==
    [][(last'.op = "get_market_data" /\ PageNames \subseteq last'.called)
          => /\ "dividend" \notin last'.ok
                    => Cached'.quarterly_dividends = Cached.quarterly_dividends
             /\ "eps_actual" \notin last'.ok => Cached'.eps_actual = Cached.eps_actual
             /\ "eps_estimated" \notin last'.ok => Cached'.eps_estimated = Cached.eps_estimated
             /\ "cape" \notin last'.ok
                    => /\ cache'.current_cape = cache.current_cape
                       /\ cache'.cape_period = cache.cape_period
             /\ "monthly_return" \notin last'.ok
                    => /\ cache'.latest_month = cache.latest_month
                       /\ cache'.latest_monthly_return = cache.latest_monthly_return]_vars

\* C3: in one Synchronize call with a working store, a source whose fetch
\* failed keeps its cached value and its timestamp, and every due source
\* whose fetch succeeded is merged all the same.
C3_FailureDoesNotSpread ==
    [][(last'.op = "get_market_data" /\ last'.faults = {} /\ last'.reply = "ok")
          => /\ ("cape" \in last'.called /\ "cape" \notin last'.ok)
                    => cache'.current_cape = cache.current_cape
             /\ (PageNames \subseteq last'.called /\ last'.ok \cap PageNames = {})
                    => cache'.timestamps.ycharts_data = cache.timestamps.ycharts_data
             /\ (last'.called \cap SourceFetches.yahoo_price # {}
                 /\ last'.ok \cap SourceFetches.yahoo_price = {})
                    => /\ cache'.current_sp500_price = cache.current_sp500_price
                       /\ cache'.timestamps.yahoo_price = cache.timestamps.yahoo_price
             /\ "spot_daily" \in last'.ok => cache'.daily_close_sp500_price \in Prices
             /\ "monthly_return" \in last'.ok => cache'.latest_month # EmptyText]_vars

\* C4: with every Cache Store read and write succeeding, Synchronize
\* replies with a snapshot whatever the adapters answered and whatever the
\* quarterly table holds: it neither returns an error nor aborts.
C4_AlwaysASnapshot ==
    (/\ last.op = "get_market_data"
     /\ last.faults = {}
     /\ \A e \in FailedWrites : ~Happened(last, e))
        => last.reply = "ok"

\* C5: when the store refuses a write during a Synchronize cycle, the error
\* is returned to the caller and the cycle has modified none of the tables.
C5_FailedWriteAbortsCycle ==
    [][(/\ last'.op = "get_market_data"
        /\ last'.faults # {}
        /\ \E e \in FailedWrites : Happened(last', e))
          => /\ last'.reply = "err"
             /\ UNCHANGED <<cache, quarterly, monthly, historical>>]_vars

Before(l, first, second) ==
    \E i, j \in 1..Len(l.events) : i < j /\ l.events[i] = first /\ l.events[j] = second

\* C7: a cycle that merged a fetched value persists the MarketCache and then
\* invokes the backfill; the backfill never runs unless the persist came
\* first; a cycle that merged nothing neither persists nor backfills.
C7_PersistThenBackfill ==
    [][last'.op = "get_market_data"
          => /\ (last'.ok # {} /\ last'.faults = {})
                    => Before(last', "update_market_cache", "check_historical_updates")
             /\ Happened(last', "check_historical_updates")
                    => Before(last', "update_market_cache", "check_historical_updates")
             /\ last'.ok = {}
                    => /\ ~Happened(last', "update_market_cache")
                       /\ ~Happened(last', "check_historical_updates")]_vars

---------------------------------------------------------------------------
(* The rate handlers on their own *)

RatesInit ==
    /\ now = InitTime
    /\ quarterly = << >>
    /\ monthly = << >>
    /\ historical = << >>
    /\ \E t \in InitRates, b \in InitRates, r \in InitRates, i \in InitRates :
          cache = RawMarketCache(InitTime, monthly,
                              [tips |-> t, bond |-> b, tbill |-> r, inflation |-> i])
    /\ tasks = NoTasks
    /\ last = Idle

RatesNext == Tick \/ GetTbill \/ GetInflation \/ GetLongTermRates

SpecRates == RatesInit /\ [][RatesNext]_vars

Failed(l, fetch) == fetch \in l.called /\ fetch \notin l.ok

\* C6: get_tbill, get_inflation and get_long_term_rates answer with the
\* external error only when a fetch failed while its cached value was still
\* zero; a failed fetch over a non-zero cached value is answered with a
\* successful reply that carries the cached value.
C6_UnavailableOnlyAtSentinel ==
    [][/\ last'.op = "get_tbill"
          => /\ last'.reply = "external_error"
                    => Failed(last', "tbill") /\ cache.tbill_yield = 0
             /\ (Failed(last', "tbill") /\ cache.tbill_yield # 0)
                    => last'.reply = "ok" /\ last'.body.rate = cache.tbill_yield
       /\ last'.op = "get_inflation"
          => /\ last'.reply = "external_error"
                    => Failed(last', "inflation") /\ cache.inflation_rate = 0
             /\ (Failed(last', "inflation") /\ cache.inflation_rate # 0)
                    => last'.reply = "ok" /\ last'.body.rate = cache.inflation_rate
       /\ last'.op = "get_long_term_rates"
          => /\ last'.reply = "external_error"
                    => \/ Failed(last', "bond_20y") /\ cache.bond_yield_20y = 0
                       \/ Failed(last', "tips_20y") /\ cache.tips_yield_20y = 0
             /\ (Failed(last', "bond_20y") /\ cache.bond_yield_20y # 0)
                    => /\ last'.reply = "ok"
                       /\ last'.body.bond_yield_20y = cache.bond_yield_20y
             /\ (Failed(last', "tips_20y") /\ cache.tips_yield_20y # 0)
                    => /\ last'.reply = "ok"
                       /\ last'.body.tips_yield_20y = cache.tips_yield_20y]_vars

\* a failed T-bill fetch answered from the cache
C6_StaleRateServed ==
    /\ last.op = "get_tbill"
    /\ Failed(last, "tbill")
    /\ last.reply = "ok"
    /\ last.body.rate = cache.tbill_yield
    /\ cache.tbill_yield # 0

\* C33: a refresh of one treasury value does not make another pass for fresh.  The
\* call of get_long_term_rates that follows a get_tbill that fetched the bill rate
\* (the treasury timestamp was over an hour old then, so the two yields are older
\* still) fetches both yields, and likewise get_tbill after get_long_term_rates.
C33_TreasuryFreshPerValue ==
    [][/\ (/\ last.op = "get_tbill" /\ "tbill" \in last.ok
            /\ last'.op = "get_long_term_rates" /\ "get_market_cache" \notin last'.faults)
           => last'.called = { "bond_20y", "tips_20y" }
       /\ (/\ last.op = "get_long_term_rates" /\ last.ok = { "bond_20y", "tips_20y" }
            /\ last'.op = "get_tbill" /\ "get_market_cache" \notin last'.faults)
           => last'.called = { "tbill" }]_vars

\* C34: a call of get_long_term_rates in which one of the two fetches succeeds and
\* the other fails, with the store at hand, leaves the fetched yield it replies
\* with in the cache row, whatever the cached value of the other yield is.
C34_FetchedYieldIsStored ==
    [][(/\ last'.op = "get_long_term_rates"
        /\ last' # last
        /\ last'.faults = {}
        /\ last'.reply = "ok"
        /\ Cardinality(last'.ok) = 1)
       => /\ "bond_20y" \in last'.ok => cache'.bond_yield_20y = last'.body.bond_yield_20y
          /\ "tips_20y" \in last'.ok => cache'.tips_yield_20y = last'.body.tips_yield_20y]_vars

---------------------------------------------------------------------------
(* The quarterly table on its own: upserts and calculations *)

QuarterlyOps == { "get_quarterly_data", "update_quarterly_data" }

\* a table whose rows are in the order the upserts leave them (by year),
\* with a quarter that has no dividend inside the trailing year
FiveQuarters ==
    << QuarterlyData(QuarterText(BaseYear - 1, 3), Some(2 * Unit - 1000), Some(5 * Unit), None),
       QuarterlyData(QuarterText(BaseYear - 1, 4), None, Some(5 * Unit), None),
       QuarterlyData(QuarterText(BaseYear, 2), Some(2 * Unit - 500), Some(6 * Unit), None),
       QuarterlyData(QuarterText(BaseYear, 1), Some(2 * Unit - 700), Some(6 * Unit), None),
       QuarterlyData(QuarterText(BaseYear, 3), Some(2 * Unit + 1), None, None) >>

UpsertQuarters == { QuarterText(BaseYear, 3), QuarterText(BaseYear, 4) }
UpsertValues == { 2 * Unit, 2 * Unit + Epsilon + 1 }
UpsertTypes == { "dividend", "eps_estimated" }

UpdateQuarterlyData ==
    \E quarter \in UpsertQuarters, value \in UpsertValues, data_type \in UpsertTypes,
       faults \in Plans(QuarterlyOps) :
        \E r \in { update_quarterly_data(quarterly, << [quarter |-> quarter, value |-> value] >>,
                                        data_type, faults) } :
           /\ quarterly' = r.table
           /\ last' = Did("update_quarterly_data", NoCalls, {}, r.result,
                          [quarter |-> quarter, value |-> value, data_type |-> data_type],
                          faults, r.events)
           /\ UNCHANGED <<now, cache, monthly, historical, tasks>>

GetQuarterlyCalculations ==
    \E faults \in Plans({ "get_quarterly_data" }) :
        \E r \in { get_quarterly_calculations(quarterly, faults) } :
           /\ last' = Did("get_quarterly_calculations", NoCalls, {}, r.result, r.values,
                          faults, << >>)
           /\ UNCHANGED <<now, cache, quarterly, monthly, historical, tasks>>

QuarterlyInit ==
    /\ now = InitTime
    /\ quarterly \in { << >>, ThreeQuarters, FiveQuarters }
    /\ monthly = << >>
    /\ historical = << >>
    /\ cache = RawMarketCache(InitTime, monthly,
                              [tips |-> 0, bond |-> 0, tbill |-> 0, inflation |-> 0])
    /\ tasks = NoTasks
    /\ last = Idle

QuarterlyNext == UpdateQuarterlyData \/ GetQuarterlyCalculations

SpecQuarterly == QuarterlyInit /\ [][QuarterlyNext]_vars

RowsOf(table, quarter) == { i \in 1..Len(table) : table[i].quarter = quarter }

\* C8: a second application of the same (quarter, field, value) changes
\* nothing in the quarterly table and writes nothing; a value further than
\* 0.001 from the stored one replaces it, a value within 0.001 leaves the
\* table as it was.
C8_QuarterlyUpsertIdempotent ==
    [][(last'.op = "update_quarterly_data" /\ last'.reply = "ok")
          => LET a == last'.body
                 again == update_quarterly_data(
                              quarterly', << [quarter |-> a.quarter, value |-> a.value] >>,
                              a.data_type, {})
             IN /\ again.table = quarterly'
                /\ again.events = << >>
                /\ \A i \in RowsOf(quarterly, a.quarter) :
                      LET old == FieldOf(quarterly[i], a.data_type)
                      IN IsSome(old)
                           => IF Abs(Unwrap(old) - a.value) > Epsilon
                              THEN /\ last'.events = << "update_quarterly_data" >>
                                   /\ \A j \in RowsOf(quarterly', a.quarter) :
                                         FieldOf(quarterly'[j], a.data_type) = Some(a.value)
                              ELSE /\ quarterly' = quarterly
                                   /\ last'.events = << >>]_vars

\* an upsert of a value within 0.001 of a different stored value was ignored
C8_NearValueIgnored ==
    /\ last.op = "update_quarterly_data"
    /\ last.reply = "ok"
    /\ last.events = << >>
    /\ \E i \in RowsOf(quarterly, last.body.quarter) :
          LET old == FieldOf(quarterly[i], last.body.data_type)
          IN IsSome(old) /\ Unwrap(old) # last.body.value

QuarterlyFields == { "dividend", "eps_actual", "eps_estimated" }

\* the number of rows of the table that are exactly this record
Copies(table, row) == Cardinality({ i \in 1..Len(table) : table[i] = row })

\* C39: one upsert of (quarter, field, value) changes nothing but that field
\* of that quarter. Every record of another quarter is in the table as often
\* as before, every record of the upserted quarter is still there with its
\* other two fields as they were, a field that was set is still set, and the
\* table has the same rows or one more.
C39_UpsertTouchesOneField ==
    [][(last'.op = "update_quarterly_data" /\ last' # last)
          => LET a == last'.body
                 rows == { quarterly[i] : i \in 1..Len(quarterly) }
                        \cup { quarterly'[i] : i \in 1..Len(quarterly') }
             IN /\ Len(quarterly') \in { Len(quarterly), Len(quarterly) + 1 }
                /\ \A row \in rows :
                      row.quarter # a.quarter
                         => Copies(quarterly', row) = Copies(quarterly, row)
                /\ Cardinality(RowsOf(quarterly', a.quarter))
                      = IF RowsOf(quarterly, a.quarter) = {} /\ quarterly' # quarterly
                        THEN 1 ELSE Cardinality(RowsOf(quarterly, a.quarter))
                /\ \A i \in RowsOf(quarterly, a.quarter) :
                      \E j \in RowsOf(quarterly', a.quarter) :
                         \A f \in QuarterlyFields :
                            /\ f # a.data_type
                                  => FieldOf(quarterly'[j], f) = FieldOf(quarterly[i], f)
                            /\ IsSome(FieldOf(quarterly[i], f))
                                  => IsSome(FieldOf(quarterly'[j], f))
                /\ \A j \in RowsOf(quarterly', a.quarter) :
                      RowsOf(quarterly, a.quarter) = {}
                         => \A f \in QuarterlyFields \ { a.data_type } :
                               FieldOf(quarterly'[j], f) = None]_vars

\* an upsert has written one field of a quarter whose record holds another
\* field as well
C39_OtherFieldKept ==
    /\ last.op = "update_quarterly_data"
    /\ last.reply = "ok"
    /\ last.events = << "update_quarterly_data" >>
    /\ \E i \in RowsOf(quarterly, last.body.quarter) :
          /\ FieldOf(quarterly[i], last.body.data_type) = Some(last.body.value)
          /\ \E f \in QuarterlyFields \ { last.body.data_type } :
                IsSome(FieldOf(quarterly[i], f))

\* the rows with a dividend whose quarter is later than quarter q
LaterDividends(table, q) ==
    { i \in 1..Len(table) :
        /\ IsSome(table[i].dividend)
        /\ KeyLess(<< q.year, q.idx >>, << table[i].quarter.year, table[i].quarter.idx >>) }

TtmReported ==
    /\ last.op = "get_quarterly_calculations"
    /\ last.reply = "ok"
    /\ IsSome(last.body.ttm_dividend)

\* C10 as stated: the quarter reported with the TTM dividend is the oldest
\* of the four most recent quarters that have a dividend.
C10_ReportsOldestQuarter ==
    TtmReported
        => Cardinality(LaterDividends(quarterly,
                                      Unwrap(last.body.ttm_dividend).final_quarter)) = 3

\* C10, amended: the quarter reported with the TTM dividend is the most
\* recent of the four most recent quarters that have a dividend.
C10_ReportsMostRecentQuarter ==
    TtmReported
        => LET q == Unwrap(last.body.ttm_dividend).final_quarter
           IN /\ \E i \in RowsOf(quarterly, q) : IsSome(quarterly[i].dividend)
              /\ LaterDividends(quarterly, q) = {}

\* a TTM dividend computed over a table with more than four quarters, one
\* of them without a dividend
C10_TtmOverGap ==
    /\ TtmReported
    /\ Len(quarterly) > 4
    /\ \E i \in 1..Len(quarterly) : ~IsSome(quarterly[i].dividend)

---------------------------------------------------------------------------
(* The monthly table on its own *)

MonthlyOps == { "get_monthly_data", "update_monthly_data" }

UpsertMonths == { MonthText(BaseYear, 3), MonthText(BaseYear, 12), MonthText(BaseYear + 1, 1) }
UpsertReturns == { 100, 200 }

UpdateMonthlyData ==
    \E month \in UpsertMonths, return_value \in UpsertReturns, faults \in Plans(MonthlyOps) :
        \E r \in { update_monthly_data(monthly, month, return_value, faults) } :
           /\ monthly' = r.table
           /\ last' = Did("update_monthly_data", NoCalls, {}, r.result,
                          [month |-> month, return_value |-> return_value],
                          faults, r.events)
           /\ UNCHANGED <<now, cache, quarterly, historical, tasks>>

MonthlyInit ==
    /\ now = InitTime
    /\ quarterly = << >>
    /\ monthly \in { << >>, ElevenMonths }
    /\ historical = << >>
    /\ cache = RawMarketCache(InitTime, monthly,
                              [tips |-> 0, bond |-> 0, tbill |-> 0, inflation |-> 0])
    /\ tasks = NoTasks
    /\ last = Idle

MonthlyNext == UpdateMonthlyData

SpecMonthly == MonthlyInit /\ [][MonthlyNext]_vars

RecordsOf(table, month) == { i \in 1..Len(table) : table[i].month = month }

\* the records of a table, each with the number of times it occurs
Census(table) ==
    [x \in { table[i] : i \in 1..Len(table) } |->
        Cardinality({ i \in 1..Len(table) : table[i] = x })]

\* C9: an upsert of a month that is already in the monthly table leaves the
\* table unchanged whatever the value; an upsert of a new month adds exactly
\* one record, after which a further upsert of that month changes nothing.
C9_MonthlyUpsertInsertOnly ==
    [][(last'.op = "update_monthly_data" /\ last'.reply = "ok")
          => LET a == last'.body
                 new == MonthlyData(a.month, a.return_value)
             IN /\ IF RecordsOf(monthly, a.month) # {}
                   THEN monthly' = monthly /\ last'.events = << >>
                   ELSE /\ Len(monthly') = Len(monthly) + 1
                        /\ Census(monthly') = Census(Append(monthly, new))
                /\ Cardinality(RecordsOf(monthly', a.month)) = 1
                /\ \A v \in UpsertReturns :
                      update_monthly_data(monthly', a.month, v, {}).table = monthly']_vars

\* a second upsert of a month, with another value, was ignored
C9_SecondValueIgnored ==
    /\ last.op = "update_monthly_data"
    /\ last.reply = "ok"
    /\ last.events = << >>
    /\ \E i \in RecordsOf(monthly, last.body.month) :
          monthly[i].total_return # last.body.return_value

(* ------------------------------------------------------------------ *)
(* The calculations over bounded quarterly tables                      *)
(* ------------------------------------------------------------------ *)

\* the n-th quarter of the window, which opens at the second quarter of BaseYear
QuarterAt(n) == QuarterText(BaseYear + (n \div 4), (n % 4) + 1)

RECURSIVE Pow2(_)
Pow2(n) == IF n = 0 THEN 1 ELSE 2 * Pow2(n - 1)

\* what a row of the table holds: nothing, a dividend, an estimate, or actuals
RowKinds == { "absent", "empty", "dividend", "estimate", "actuals" }

\* the values of one quarter tell the quarters of a sum apart
RowOfKind(n, kind) ==
    QuarterlyData(QuarterAt(n),
                  IF kind \in {"dividend", "actuals"} THEN Some(Pow2(n) * Unit) ELSE None,
                  IF kind = "actuals" THEN Some(Pow2(n) * 10 * Unit) ELSE None,
                  IF kind = "estimate" THEN Some(Pow2(n) * 100 * Unit) ELSE None)

RECURSIVE RowsFrom(_, _)
RowsFrom(kinds, n) ==
    IF n = 0 THEN << >>
    ELSE IF kinds[n] = "absent" THEN RowsFrom(kinds, n - 1)
    ELSE Append(RowsFrom(kinds, n - 1), RowOfKind(n, kinds[n]))

\* the order the store leaves behind when the quarters of a year arrive latest first:
\* years ascending, the quarters of one year descending
store_order(row) == << row.quarter.year, 0 - row.quarter.idx >>

CalcTables ==
    { StableSort(RowsFrom(kinds, MaxQuarters), store_order) :
        kinds \in [1..MaxQuarters -> RowKinds] }

SortedQuarterly == StableSort(quarterly, parse_quarter_calc)

\* lines 60-87 of get_quarterly_calculations
TtmDividendStep ==
    /\ last' = Did("ttm_dividend", NoCalls, {}, "ok",
                   [value |-> ttm_dividend(SortedQuarterly)], {}, << >>)
    /\ UNCHANGED <<now, cache, quarterly, monthly, historical, tasks>>

\* lines 90-95 of get_quarterly_calculations
LatestEpsActualStep ==
    /\ last' = Did("latest_eps_actual", NoCalls, {}, "ok",
                   [value |-> latest_eps_actual(SortedQuarterly)], {}, << >>)
    /\ UNCHANGED <<now, cache, quarterly, monthly, historical, tasks>>

\* lines 98-135 of get_quarterly_calculations
EstimatedEpsSumStep ==
    \E r \in { estimated_eps_sum(SortedQuarterly) } :
       /\ last' = Did("estimated_eps_sum", NoCalls, {},
                      IF r.panic THEN "panic" ELSE "ok", [value |-> r.value], {}, << >>)
       /\ UNCHANGED <<now, cache, quarterly, monthly, historical, tasks>>

CalculationsInit ==
    /\ now = InitTime
    /\ quarterly \in CalcTables
    /\ monthly = << >>
    /\ historical = << >>
    /\ cache = RawMarketCache(InitTime, monthly,
                              [tips |-> 0, bond |-> 0, tbill |-> 0, inflation |-> 0])
    /\ tasks = NoTasks
    /\ last = Idle

CalculationsNext ==
    TtmDividendStep \/ LatestEpsActualStep \/ EstimatedEpsSumStep \/ GetQuarterlyCalculations

SpecCalculations == CalculationsInit /\ [][CalculationsNext]_vars

\* the rows of the table that hold the named field
Holding(field) == { i \in 1..Len(quarterly) : IsSome(quarterly[i][field]) }

QuarterKey(i) == << quarterly[i].quarter.year, quarterly[i].quarter.idx >>

\* the rows of a set that at most three rows of the set come after
LatestFour(rows) ==
    { i \in rows : Cardinality({ j \in rows : KeyLess(QuarterKey(i), QuarterKey(j)) }) < 4 }

RECURSIVE SumField(_, _)
SumField(rows, field) ==
    IF rows = {} THEN 0
    ELSE LET i == CHOOSE k \in rows : TRUE
         IN Unwrap(quarterly[i][field]) + SumField(rows \ {i}, field)

\* C11: the trailing-twelve-month dividend is none when fewer than 4 rows of the
\* table hold a dividend, and is the sum of the 4 most recent dividends when at
\* least 4 rows hold one; rows without a dividend are passed over and not counted.
C11_TtmNeedsFourDividends ==
    last.op = "ttm_dividend" =>
        IF Cardinality(Holding("dividend")) < 4
        THEN last.body.value = None
        ELSE /\ IsSome(last.body.value)
             /\ Unwrap(last.body.value).value
                    = SumField(LatestFour(Holding("dividend")), "dividend")

\* four dividends are found behind a row that holds none
C11_SkipsNullDividend ==
    /\ last.op = "ttm_dividend"
    /\ IsSome(last.body.value)
    /\ \E i \in 1..Len(quarterly) :
          /\ ~IsSome(quarterly[i].dividend)
          /\ \E j \in LatestFour(Holding("dividend")) : KeyLess(QuarterKey(j), QuarterKey(i))
          /\ \E j \in LatestFour(Holding("dividend")) : KeyLess(QuarterKey(i), QuarterKey(j))

NextQuarter(q) ==
    IF q.idx = 4 THEN QuarterText(q.year + 1, 1) ELSE QuarterText(q.year, q.idx + 1)

RECURSIVE QuarterAfter(_, _)
QuarterAfter(q, k) == IF k = 0 THEN q ELSE NextQuarter(QuarterAfter(q, k - 1))

\* the row of the earliest quarter that holds an estimate
EarliestEstimated ==
    CHOOSE i \in Holding("eps_estimated") :
        \A j \in Holding("eps_estimated") : ~KeyLess(QuarterKey(j), QuarterKey(i))

\* the rows with an estimate for the k-th quarter after the earliest estimated one
EstimatedAfter(k) ==
    { i \in Holding("eps_estimated") :
        quarterly[i].quarter = QuarterAfter(quarterly[EarliestEstimated].quarter, k) }

\* C12: the forward EPS sum starts at the earliest quarter, in (year, quarter)
\* order, that holds an estimate; when that quarter and the next three quarters
\* all hold an estimate, the result is the sum of the four estimates, and the
\* quarter it reports is the 4th of them.
C12_ForwardSumOfFourQuarters ==
    (/\ last.op = "estimated_eps_sum"
     /\ Holding("eps_estimated") # {}
     /\ \A k \in 1..3 : EstimatedAfter(k) # {})
    => /\ last.reply = "ok"
       /\ last.body.value
            = Some(QuarterlyValue(QuarterAfter(quarterly[EarliestEstimated].quarter, 3),
                                  SumField(UNION { EstimatedAfter(k) : k \in 0..3 },
                                           "eps_estimated")))

\* four estimated quarters that cross a year's end, behind a quarter with none
C12_FourEstimatesAcrossYears ==
    /\ last.op = "estimated_eps_sum"
    /\ IsSome(last.body.value)
    /\ Unwrap(last.body.value).final_quarter.year > quarterly[EarliestEstimated].quarter.year
    /\ \E i \in 1..Len(quarterly) : KeyLess(QuarterKey(i), QuarterKey(EarliestEstimated))

\* C13: when one of the three quarters after the earliest estimated quarter holds
\* no estimate, the forward EPS sum is none, whatever estimates later quarters hold.
C13_GapGivesNone ==
    (/\ last.op = "estimated_eps_sum"
     /\ Holding("eps_estimated") # {}
     /\ \E k \in 1..3 : EstimatedAfter(k) = {})
    => /\ last.reply = "ok"
       /\ last.body.value = None

\* the rows at or after the earliest row that holds an estimate
FromEarliestEstimated ==
    { i \in 1..Len(quarterly) : ~KeyLess(QuarterKey(i), QuarterKey(EarliestEstimated)) }

\* C30: over a table with fewer than 4 rows at or after the earliest row that holds
\* an estimate, get_quarterly_calculations returns normally, so that the call of
\* get_market_data around it does, and its forward EPS sum is none.
C30_ShortRunGivesNone ==
    (/\ last.op = "get_quarterly_calculations"
     /\ last.faults = {}
     /\ Holding("eps_estimated") # {}
     /\ Cardinality(FromEarliestEstimated) < 4)
    => /\ last.reply = "ok"
       /\ last.body.estimated_eps_sum = None

\* C31: whenever the forward EPS sum is a result, the three calendar quarters that
\* follow the earliest estimated quarter all hold an estimate and the quarter it
\* reports is the third of them: a quarter with no row is a gap.
C31_SummedQuartersAreConsecutive ==
    (/\ last.op = "estimated_eps_sum"
     /\ last.reply = "ok"
     /\ IsSome(last.body.value))
    => /\ \A k \in 1..3 : EstimatedAfter(k) # {}
       /\ Unwrap(last.body.value).final_quarter
             = QuarterAfter(quarterly[EarliestEstimated].quarter, 3)

\* C14: the latest actual EPS is the row of the greatest (year, quarter) among the
\* rows that hold an actual EPS, with that row's value, and is none exactly when
\* no row holds one.
C14_LatestActualIsGreatestQuarter ==
    last.op = "latest_eps_actual" =>
        IF Holding("eps_actual") = {}
        THEN last.body.value = None
        ELSE \E i \in Holding("eps_actual") :
                /\ \A j \in Holding("eps_actual") : ~KeyLess(QuarterKey(i), QuarterKey(j))
                /\ last.body.value
                     = Some(QuarterlyValue(quarterly[i].quarter,
                                           Unwrap(quarterly[i].eps_actual)))

\* two years hold actuals, the store keeps the later quarter of a year first, and
\* later rows hold none
C14_ActualsInTwoYears ==
    /\ last.op = "latest_eps_actual"
    /\ IsSome(last.body.value)
    /\ \E i, j \in Holding("eps_actual") : quarterly[i].quarter.year < quarterly[j].quarter.year
    /\ \E i, j \in Holding("eps_actual") : i < j /\ KeyLess(QuarterKey(j), QuarterKey(i))
    /\ \E i \in 1..Len(quarterly) :
          /\ ~IsSome(quarterly[i].eps_actual)
          /\ KeyLess(QuarterKey(i), << Unwrap(last.body.value).final_quarter.year + 1, 0 >>)
          /\ KeyLess(<< Unwrap(last.body.value).final_quarter.year,
                        Unwrap(last.body.value).final_quarter.idx >>, QuarterKey(i))

(* ------------------------------------------------------------------ *)
(* check_historical_updates over bounded snapshots and tables          *)
(* ------------------------------------------------------------------ *)

BackfillOps == { "get_historical_year", "get_monthly_data", "update_historical_record" }

\* the quarters of a year that hold a value of one column
HeldSets == { 1..4, {1, 2, 3}, {2, 3, 4}, {1, 4}, {} }

DividendValues == { Unit, 0 }

RECURSIVE YearQuarters(_, _, _, _, _)
YearQuarters(year, q, eps_held, div_held, div) ==
    IF q = 0 THEN << >>
    ELSE IF q \notin (eps_held \cup div_held)
    THEN YearQuarters(year, q - 1, eps_held, div_held, div)
    ELSE Append(YearQuarters(year, q - 1, eps_held, div_held, div),
                QuarterlyData(QuarterText(year, q),
                              IF q \in div_held THEN Some(div) ELSE None,
                              IF q \in eps_held THEN Some((4 + q) * Unit) ELSE None,
                              None))

BackfillQuarterlyTables ==
    { YearQuarters(YearOf(InitTime) - 1, 4, eps_held, div_held, div) :
        eps_held \in HeldSets, div_held \in HeldSets, div \in DividendValues }

\* the monthly sheet with 11, 12 or 13 records of the year (the 13th under the
\* key "<year>-00") and one record of the year after
YearMonths(year, count) ==
    [n \in 1..(count + 1) |->
        IF n = count + 1 THEN MonthlyData(MonthText(year + 1, 1), 300)
        ELSE IF count = 13 THEN MonthlyData(MonthText(year, n - 1), 100 + n)
        ELSE MonthlyData(MonthText(year, n), 100 + n)]

BackfillMonthlyTables == { YearMonths(YearOf(InitTime) - 1, count) : count \in {11, 12, 13} }

\* the row of a year as an earlier run left it
KeptRecord(year) ==
    [HistoricalRecord(year) EXCEPT !.sp500_price = 4 * Unit, !.dividend = 3 * Unit,
                                   !.dividend_yield = [num |-> 3 * Unit, den |-> 4 * Unit],
                                   !.eps = 20 * Unit, !.cape = 25 * Unit,
                                   !.total_return = << 700 >>,
                                   !.inflation = 300, !.cumulative_return = 2 * Unit]

BackfillHistoricalTables ==
    { << >>,
      << HistoricalRecord(YearOf(InitTime) - 1), HistoricalRecord(YearOf(InitTime)) >>,
      << KeptRecord(YearOf(InitTime) - 1), HistoricalRecord(YearOf(InitTime)) >> }

BackfillLabels ==
    { MonLabel(YearOf(InitTime) - 1, 12), MonLabel(YearOf(InitTime) - 1, 11),
      MonthText(YearOf(InitTime) - 1, 12) }

BackfillInit ==
    /\ now = InitTime
    /\ quarterly \in BackfillQuarterlyTables
    /\ monthly \in BackfillMonthlyTables
    /\ historical \in BackfillHistoricalTables
    /\ \E yahoo_price \in { InitTime, InitTime - MinutesPerYear },
          daily_close \in { 0, 5 * Unit }, label \in BackfillLabels :
          cache = [RawMarketCache(InitTime, monthly,
                                  [tips |-> 0, bond |-> 0, tbill |-> 0, inflation |-> 0])
                       EXCEPT !.timestamps.yahoo_price = yahoo_price,
                              !.daily_close_sp500_price = daily_close,
                              !.cape_period = label]
    /\ tasks = NoTasks
    /\ last = Idle

CheckHistoricalUpdates ==
    \E faults \in Plans(BackfillOps) :
        \E r \in { check_historical_updates(Cached, monthly, historical, faults) } :
           /\ historical' = r.table
           /\ last' = Did("check_historical_updates", NoCalls, {}, r.result,
                          [before |-> historical], faults, r.events)
           /\ UNCHANGED <<now, cache, quarterly, monthly, tasks>>

BackfillNext == CheckHistoricalUpdates

SpecBackfill == BackfillInit /\ [][BackfillNext]_vars

PrevYear == YearOf(now) - 1

\* the row of previousYear in a historical table, or the blank record of the year
YearRecord(table) ==
    IF \E i \in 1..Len(table) : table[i].year = PrevYear
    THEN table[CHOOSE i \in 1..Len(table) :
                   /\ table[i].year = PrevYear
                   /\ \A j \in 1..(i - 1) : table[j].year # PrevYear]
    ELSE HistoricalRecord(PrevYear)

\* the rows of previousYear that hold the named field
YearHolding(field) == { i \in Holding(field) : quarterly[i].quarter.year = PrevYear }

QuartersHolding(field) == { quarterly[i].quarter.idx : i \in YearHolding(field) }

\* a run of check_historical_updates that returned Ok
BackfillRan == last'.op = "check_historical_updates" /\ last'.reply = "ok"

\* C15: a run of the backfill sets the annual EPS of previousYear to the sum of
\* the four quarterly actual EPS exactly when Q1..Q4 all hold one, and the annual
\* dividend to the sum of the four quarterly dividends exactly when Q1..Q4 all
\* hold one; otherwise the field stays as it was, whatever the other field does.
C15_EpsAndDividendGatedApart ==
    [][BackfillRan =>
         /\ YearRecord(historical').eps
              = IF QuartersHolding("eps_actual") = 1..4
                THEN SumField(YearHolding("eps_actual"), "eps_actual")
                ELSE YearRecord(historical).eps
         /\ YearRecord(historical').dividend
              = IF QuartersHolding("dividend") = 1..4
                THEN SumField(YearHolding("dividend"), "dividend")
                ELSE YearRecord(historical).dividend]_vars

\* EPS 5, 6, 7, 8 give 26 while three dividends leave the kept dividend alone
C15_EpsSetDividendKept ==
    /\ last.op = "check_historical_updates"
    /\ last.reply = "ok"
    /\ QuartersHolding("eps_actual") = 1..4
    /\ Cardinality(QuartersHolding("dividend")) = 3
    /\ YearRecord(historical).eps = 26 * Unit
    /\ YearRecord(historical).dividend = 3 * Unit

\* the monthly records whose key starts with "<previousYear>-"
MonthsOfYear ==
    { i \in 1..Len(monthly) :
        monthly[i].month.fmt = "YYYY-MM" /\ monthly[i].month.year = PrevYear }

\* the returns of those records, in the order of the sheet
ReturnsOfYear ==
    [n \in 1..Cardinality(MonthsOfYear) |->
        monthly[CHOOSE i \in MonthsOfYear :
                    Cardinality({ j \in MonthsOfYear : j <= i }) = n].total_return]

\* C16: a run of the backfill sets the annual total return of previousYear only
\* when exactly 12 monthly records carry a key of previousYear, and then to the
\* compounded return of those 12; with 11 or fewer, or with 13 or more, the total
\* return of the record stays as it was.
C16_TotalReturnNeedsTwelveMonths ==
    [][BackfillRan =>
         YearRecord(historical').total_return
            = IF Cardinality(MonthsOfYear) = 12
              THEN ReturnsOfYear
              ELSE YearRecord(historical).total_return]_vars

\* twelve months of previousYear, beside a month of the next year, are compounded
C16_TwelveMonthsCompounded ==
    /\ last.op = "check_historical_updates"
    /\ last.reply = "ok"
    /\ Cardinality(MonthsOfYear) = 12
    /\ Len(monthly) > 12
    /\ YearRecord(historical).total_return = ReturnsOfYear

\* C17 as stated: a run of the backfill sets the year-end price of the previousYear
\* record to the cached daily close exactly when the year of the spot-price
\* timestamp is greater than the record's year and the daily close is non-zero;
\* otherwise the price stays as it was.
C17_PriceWhenFetchYearAfterRecord ==
    [][BackfillRan =>
         YearRecord(historical').sp500_price
            = IF /\ YearOf(cache.timestamps.yahoo_price) > YearRecord(historical).year
                 /\ cache.daily_close_sp500_price # 0
              THEN cache.daily_close_sp500_price
              ELSE YearRecord(historical).sp500_price]_vars

\* C17 amended: a run of the backfill sets the year-end price of the previousYear
\* record to the cached daily close exactly when the year of the spot-price
\* timestamp is earlier than the current year and the daily close is non-zero;
\* otherwise the price stays as it was.
C17_PriceWhenFetchYearBeforeNow ==
    [][BackfillRan =>
         YearRecord(historical').sp500_price
            = IF /\ YearOf(cache.timestamps.yahoo_price) < YearOf(now)
                 /\ cache.daily_close_sp500_price # 0
              THEN cache.daily_close_sp500_price
              ELSE YearRecord(historical).sp500_price]_vars

\* the last spot fetch lies in previousYear and the close replaced the kept price
C17_CloseOfLastYearRecorded ==
    /\ last.op = "check_historical_updates"
    /\ last.reply = "ok"
    /\ YearOf(cache.timestamps.yahoo_price) = PrevYear
    /\ cache.daily_close_sp500_price = 5 * Unit
    /\ YearRecord(historical).sp500_price = 5 * Unit
    /\ YearRecord(historical).eps = 20 * Unit

\* C18: a run of the backfill sets the annual CAPE of the previousYear record to
\* the cached CAPE exactly when the cache's CAPE period label is "Dec <previousYear>";
\* with any other label the CAPE of the record stays as it was.
C18_CapeOnlyUnderDecemberLabel ==
    [][BackfillRan =>
         YearRecord(historical').cape
            = IF cache.cape_period = [fmt |-> "Mon YYYY", year |-> PrevYear, idx |-> 12]
              THEN cache.current_cape
              ELSE YearRecord(historical).cape]_vars

\* the cached CAPE of December replaced the kept one
C18_DecemberCapeRecorded ==
    /\ last.op = "check_historical_updates"
    /\ last.reply = "ok"
    /\ cache.cape_period = [fmt |-> "Mon YYYY", year |-> PrevYear, idx |-> 12]
    /\ YearRecord(historical).cape = cache.current_cape
    /\ YearRecord(historical).eps = 20 * Unit

\* a run of check_historical_updates that wrote the record of previousYear
BackfillWrote ==
    /\ last'.op = "check_historical_updates"
    /\ \E n \in 1..Len(last'.events) : last'.events[n] = "update_historical_record"

\* C19: whenever a run of the backfill writes the record of previousYear, the
\* stored dividend yield is annual dividend / annual price when both are non-zero
\* and 0 otherwise; it is never a value left from an earlier dividend or price.
C19_YieldRecomputedOrZero ==
    [][BackfillWrote =>
         YearRecord(historical').dividend_yield
            = IF /\ YearRecord(historical').dividend # 0
                 /\ YearRecord(historical').sp500_price # 0
              THEN [num |-> YearRecord(historical').dividend,
                    den |-> YearRecord(historical').sp500_price]
              ELSE [num |-> 0, den |-> 1]]_vars

\* C20: a run of check_historical_updates that follows a run that returned Ok,
\* with the same cache snapshot, quarterly and monthly tables and current year,
\* leaves the historical table exactly as the first run left it.
C20_SecondRunChangesNothing ==
    [][(/\ last.op = "check_historical_updates"
        /\ last.reply = "ok"
        /\ last'.op = "check_historical_updates"
        /\ <<now, cache, quarterly, monthly>>' = <<now, cache, quarterly, monthly>>)
       => historical' = historical]_vars

\* a run that wrote EPS, price and total return over a table that held them already
C20_RewroteTheSameRecord ==
    /\ last.op = "check_historical_updates"
    /\ last.reply = "ok"
    /\ \E n \in 1..Len(last.events) : last.events[n] = "update_historical_record"
    /\ last.body.before = historical
    /\ YearRecord(historical).eps = 26 * Unit
    /\ YearRecord(historical).sp500_price = 5 * Unit
    /\ Len(YearRecord(historical).total_return) = 12

\* a run of check_historical_updates that went to the store with a record to write
BackfillHadChange ==
    /\ last'.op = "check_historical_updates"
    /\ last'.events # << >>

\* C27: when a run of the backfill has a change to record for previousYear and the
\* historical table holds no row of that year, the run returns Ok and the table
\* holds the new record of the year afterwards.
C27_MissingYearIsCreated ==
    [][(/\ BackfillHadChange
        /\ last'.faults = {}
        /\ \A i \in 1..Len(historical) : historical[i].year # PrevYear)
       => /\ last'.reply = "ok"
          /\ \E i \in 1..Len(historical') : historical'[i].year = PrevYear]_vars

\* C40: a run of check_historical_updates leaves the historical table with
\* the same number of rows, every row of a year other than previousYear as it
\* was, and the inflation and cumulative_return of the previousYear record as
\* they were before the run (0 when the table had no such record).
C40_BackfillTouchesOnlyItsYear ==
    [][(last'.op = "check_historical_updates" /\ last' # last)
       => /\ Len(historical') = Len(historical)
          /\ \A i \in 1..Len(historical) :
                IF historical[i].year # PrevYear
                THEN historical'[i] = historical[i]
                ELSE /\ historical'[i].year = PrevYear
                     /\ historical'[i].inflation = historical[i].inflation
                     /\ historical'[i].cumulative_return = historical[i].cumulative_return
          /\ YearRecord(historical').inflation = YearRecord(historical).inflation
          /\ YearRecord(historical').cumulative_return
                = YearRecord(historical).cumulative_return]_vars

\* a run has rewritten the previousYear record, which holds an inflation and a
\* cumulative return, in a table that holds another year as well
C40_RecordRewritten ==
    /\ last.op = "check_historical_updates"
    /\ last.reply = "ok"
    /\ last.events = << "update_historical_record" >>
    /\ last.body.before # historical
    /\ YearRecord(historical).inflation # 0
    /\ YearRecord(historical).cumulative_return # 0
    /\ \E i \in 1..Len(historical) : historical[i].year # PrevYear

(* ------------------------------------------------------------------ *)
(* services/calculations.rs                                            *)
(* ------------------------------------------------------------------ *)

RECURSIVE Gcd(_, _)
Gcd(a, b) == IF b = 0 THEN a ELSE Gcd(b, a % b)

\* an f64 result: finite results (num / den)^(1 / years) - 1, or NaN, or infinite
Growth(class, num, den, years) == [class |-> class, num |-> num, den |-> den, years |-> years]

\* 0.0: the ratio 1
ZeroGrowth == Growth("finite", 1, 1, 1)
\* -1.0: the ratio 0
TotalLoss == Growth("finite", 0, 1, 1)

\* a positive ratio in lowest terms under a root; x / x is 1.0 and 1.0.powf(y) is 1.0
RootOf(num, den, years) ==
    IF num = den THEN ZeroGrowth
    ELSE IF years > 0 THEN Growth("finite", num \div Gcd(num, den), den \div Gcd(num, den), years)
    ELSE Growth("finite", den \div Gcd(num, den), num \div Gcd(num, den), 0 - years)

\* (end_value / start_value).powf(1.0 / years) - 1.0 in IEEE 754 arithmetic
growth_rate(start_value, end_value, years) ==
    LET a == Abs(start_value)
        b == Abs(end_value)
        negative == (start_value < 0) # (end_value < 0)
    IN IF start_value = 0 /\ end_value = 0 THEN Growth("nan", 0, 0, 0)
       ELSE IF years = 0
       THEN \* the exponent is infinite
            IF start_value = 0 \/ b > a THEN Growth("inf", 0, 0, 0)
            ELSE IF b = a THEN ZeroGrowth ELSE TotalLoss
       ELSE IF start_value = 0
       THEN \* the ratio is infinite
            IF years > 0 THEN Growth("inf", 0, 0, 0) ELSE TotalLoss
       ELSE IF end_value = 0
       THEN IF years > 0 THEN TotalLoss ELSE Growth("inf", 0, 0, 0)
       ELSE IF negative
       THEN \* a negative base: only an exponent of 1 or -1 gives a number
            IF years = 1 THEN Growth("finite", 0 - b, a, 1)
            ELSE IF years = 0 - 1 THEN Growth("finite", 0 - a, b, 1)
            ELSE Growth("nan", 0, 0, 0)
       ELSE RootOf(b, a, years)

calculate_cagr_unguarded(start_value, end_value, years) ==
    growth_rate(start_value, end_value, years)

\* if start_value <= 0.0 || end_value <= 0.0 || years <= 0.0 { return 0.0; }
calculate_cagr(start_value, end_value, years) ==
    IF start_value <= 0 \/ end_value <= 0 \/ years <= 0
    THEN ZeroGrowth
    ELSE growth_rate(start_value, end_value, years)

\* the arguments the function is tried on
CagrValues == { 0 - 5 * Unit, 0, 5 * Unit, 10 * Unit, 100 * Unit, 110 * Unit }
CagrYears == { 0 - 1, 0, 1, 5, 10 }

CagrInit ==
    /\ now = InitTime
    /\ cache = RawMarketCache(InitTime, << >>,
                              [tips |-> 0, bond |-> 0, tbill |-> 0, inflation |-> 0])
    /\ quarterly = << >>
    /\ monthly = << >>
    /\ historical = << >>
    /\ tasks = NoTasks
    /\ \E start_value \in CagrValues, end_value \in CagrValues, years \in CagrYears :
          last = [Idle EXCEPT !.body = [start_value |-> start_value,
                                        end_value |-> end_value,
                                        years |-> years, value |-> ZeroGrowth]]

CalculateCagr ==
    /\ last' = Did("calculate_cagr", NoCalls, {}, "ok",
                   [last.body EXCEPT !.value = calculate_cagr(last.body.start_value,
                                                              last.body.end_value,
                                                              last.body.years)],
                   {}, << >>)
    /\ UNCHANGED <<now, cache, quarterly, monthly, historical, tasks>>

CagrNext == CalculateCagr

SpecCagr == CagrInit /\ [][CagrNext]_vars

calculate_average(values) == [terms |-> values, count |-> Len(values)]

TenYears == 10

MarketMetrics(avg, inflation, earnings, cape, returns) ==
    [avg_dividend_yield |-> avg,
     past_inflation_cagr |-> inflation.past, current_inflation_cagr |-> inflation.current,
     past_earnings_cagr |-> earnings.past, current_earnings_cagr |-> earnings.current,
     past_cape_cagr |-> cape.past, current_cape_cagr |-> cape.current,
     past_returns_cagr |-> returns.past, current_returns_cagr |-> returns.current]

NoGrowth == [past |-> ZeroGrowth, current |-> ZeroGrowth]
NoMetrics == MarketMetrics(calculate_average(<< >>), NoGrowth, NoGrowth, NoGrowth, NoGrowth)

year_key(r) == << r.year, 0 >>

\* the first and the last row, and the row of the year ten years before the last
indicator_cagr(sorted_data, ten_year_data, field) ==
    LET first == sorted_data[1]
        current == sorted_data[Len(sorted_data)]
    IN [past |-> calculate_cagr(first[field], current[field], current.year - first.year),
        current |-> calculate_cagr(ten_year_data[field], current[field], TenYears)]

calculate_market_metrics(historical_data) ==
    LET sorted_data == StableSort(historical_data, year_key)
        dividend_yields == SelectSeq([n \in 1..Len(sorted_data) |-> sorted_data[n].dividend_yield],
                                     LAMBDA y : y.num > 0)
    IN IF sorted_data = << >>
       THEN [result |-> "err", error |-> "No historical data available", metrics |-> NoMetrics]
       ELSE LET current_year == sorted_data[Len(sorted_data)].year
                ten_years_ago == current_year - TenYears
                hits == { n \in 1..Len(sorted_data) : sorted_data[n].year = ten_years_ago }
            IN IF hits = {}
               THEN [result |-> "err", error |-> "10-year historical data not available",
                     metrics |-> NoMetrics]
               ELSE LET ten_year_data == sorted_data[CHOOSE n \in hits : \A k \in hits : n <= k]
                    IN [result |-> "ok", error |-> "",
                        metrics |-> MarketMetrics(
                            calculate_average(dividend_yields),
                            indicator_cagr(sorted_data, ten_year_data, "inflation"),
                            indicator_cagr(sorted_data, ten_year_data, "eps"),
                            indicator_cagr(sorted_data, ten_year_data, "cape"),
                            indicator_cagr(sorted_data, ten_year_data, "cumulative_return"))]

\* services/equity.rs: get_market_metrics, behind handlers/equity.rs
get_market_metrics(table, faults) ==
    IF "get_historical_data" \in faults
    THEN [result |-> "err", error |-> "get_historical_data failed", metrics |-> NoMetrics]
    ELSE calculate_market_metrics(table)

\* the years a series may hold, counted back from BaseYear
SeriesYears == << BaseYear - 12, BaseYear - 11, BaseYear - 10, BaseYear - 1, BaseYear >>

\* a year is absent, all zero, all valid, or valid in its CAPE alone
SeriesKinds == { "absent", "zero", "valid", "cape" }

SeriesRecord(k, kind) ==
    [HistoricalRecord(SeriesYears[k])
        EXCEPT !.inflation = IF kind = "valid" THEN Pow2(k) * Unit ELSE 0,
               !.eps = IF kind = "valid" THEN Pow2(k) * 3 * Unit ELSE 0,
               !.cape = IF kind \in {"valid", "cape"} THEN Pow2(k) * 5 * Unit ELSE 0,
               !.cumulative_return = IF kind = "valid" THEN Pow2(k) * 7 * Unit ELSE 0,
               !.dividend_yield = IF kind = "valid" THEN [num |-> k, den |-> 100] ELSE ZeroYield]

RECURSIVE SeriesFrom(_, _)
SeriesFrom(kinds, k) ==
    IF k = 0 THEN << >>
    ELSE IF kinds[k] = "absent" THEN SeriesFrom(kinds, k - 1)
    ELSE Append(SeriesFrom(kinds, k - 1), SeriesRecord(k, kinds[k]))

Reversed(s) == [n \in 1..Len(s) |-> s[Len(s) + 1 - n]]

\* the annual sheet, oldest year first or newest year first
MetricsSeries ==
    { SeriesFrom(kinds, Len(SeriesYears)) : kinds \in [1..Len(SeriesYears) -> SeriesKinds] }
    \cup { Reversed(SeriesFrom(kinds, Len(SeriesYears))) :
             kinds \in [1..Len(SeriesYears) -> SeriesKinds] }

MetricsInit ==
    /\ now = InitTime
    /\ cache = RawMarketCache(InitTime, << >>,
                              [tips |-> 0, bond |-> 0, tbill |-> 0, inflation |-> 0])
    /\ quarterly = << >>
    /\ monthly = << >>
    /\ historical \in MetricsSeries
    /\ tasks = NoTasks
    /\ last = Idle

GetMarketMetrics ==
    \E faults \in Plans({ "get_historical_data" }) :
        \E r \in { get_market_metrics(historical, faults) } :
           /\ last' = Did("get_market_metrics", NoCalls, {}, r.result,
                          [error |-> r.error, metrics |-> r.metrics], faults, << >>)
           /\ UNCHANGED <<now, cache, quarterly, monthly, historical, tasks>>

MetricsNext == GetMarketMetrics

SpecMetrics == MetricsInit /\ [][MetricsNext]_vars

\* C21: without a store failure, the metrics call fails only when the annual
\* series is empty; over every non-empty series, also one with no record dated
\* exactly 10 years before its last year, it returns metrics.
C21_MetricsFailOnlyOnEmptySeries ==
    (last.op = "get_market_metrics" /\ last.faults = {})
        => (last.reply = "err" <=> historical = << >>)

Indicators == { "inflation", "eps", "cape", "cumulative_return" }

PastOf(metrics, field) ==
    CASE field = "inflation" -> metrics.past_inflation_cagr
      [] field = "eps" -> metrics.past_earnings_cagr
      [] field = "cape" -> metrics.past_cape_cagr
      [] field = "cumulative_return" -> metrics.past_returns_cagr

CurrentOf(metrics, field) ==
    CASE field = "inflation" -> metrics.current_inflation_cagr
      [] field = "eps" -> metrics.current_earnings_cagr
      [] field = "cape" -> metrics.current_cape_cagr
      [] field = "cumulative_return" -> metrics.current_returns_cagr

\* the entries of the annual series whose value of the indicator is > 0
ValidEntries(field) == { n \in 1..Len(historical) : historical[n][field] > 0 }

FirstValid(field) ==
    historical[CHOOSE n \in ValidEntries(field) :
                   \A k \in ValidEntries(field) : historical[n].year <= historical[k].year]

LastValid(field) ==
    historical[CHOOSE n \in ValidEntries(field) :
                   \A k \in ValidEntries(field) : historical[k].year <= historical[n].year]

\* the valid entries at or before ten years before the last valid one
TrailingStarts(field) ==
    { n \in ValidEntries(field) : historical[n].year <= LastValid(field).year - 10 }

TrailingStart(field) ==
    historical[CHOOSE n \in TrailingStarts(field) :
                   \A k \in TrailingStarts(field) : historical[k].year <= historical[n].year]

\* C23: for each indicator the whole-period CAGR of the returned metrics runs from
\* the first to the last entry whose value is > 0, over the years between them;
\* entries with a zero value are no endpoints, and with fewer than 2 valid
\* entries the result is 0.
C23_WholePeriodBetweenValidEntries ==
    (last.op = "get_market_metrics" /\ last.reply = "ok") =>
        \A field \in Indicators :
            PastOf(last.body.metrics, field)
                = IF Cardinality(ValidEntries(field)) >= 2
                  THEN calculate_cagr(FirstValid(field)[field], LastValid(field)[field],
                                      LastValid(field).year - FirstValid(field).year)
                  ELSE Growth("finite", 1, 1, 1)

\* C24: for each indicator the trailing-10-year CAGR of the returned metrics starts
\* from the latest valid entry at or before ten years before the last valid
\* entry, runs over the years that lie between the two, and is 0 when there is
\* no such entry.
C24_TrailingFromLatestValidEntry ==
    (last.op = "get_market_metrics" /\ last.reply = "ok") =>
        \A field \in Indicators :
            CurrentOf(last.body.metrics, field)
                = IF ValidEntries(field) # {} /\ TrailingStarts(field) # {}
                  THEN calculate_cagr(TrailingStart(field)[field], LastValid(field)[field],
                                      LastValid(field).year - TrailingStart(field).year)
                  ELSE Growth("finite", 1, 1, 1)

(* ------------------------------------------------------------------ *)
(* main.rs, handlers/equity.rs: the callers of get_market_data         *)
(* ------------------------------------------------------------------ *)

CentralDay(t) == (t + MinutesPerYear - CentralOffsetMinutes) \div MinutesPerDay

InFlight == { c \in Callers : tasks[c].pc = "get_market_data" }

\* Job::new_async("0 30 15 * * *", ..): the job task calls get_market_data
DailyJobBegin ==
    /\ tasks["daily_job"].pc = "idle"
    /\ CentralMinuteOfDay(now) = CloseMinuteCentral
    /\ tasks' = [tasks EXCEPT !["daily_job"].pc = "get_market_data"]
    /\ UNCHANGED <<now, cache, quarterly, monthly, historical, last>>

\* tokio::spawn at start-up: after 15:30 Central with the last spot update of an
\* earlier day the task calls get_market_data; a failed cache read ends the task
CatchUpStart ==
    /\ tasks["catch_up"].pc = "start"
    /\ \E faults \in Plans({ "get_market_cache" }) :
          tasks' = [tasks EXCEPT !["catch_up"].pc =
                       IF /\ CentralMinuteOfDay(now) > CloseMinuteCentral
                          /\ faults = {}
                          /\ CentralDay(cache.timestamps.yahoo_price) < CentralDay(now)
                       THEN "get_market_data" ELSE "done"]
    /\ UNCHANGED <<now, cache, quarterly, monthly, historical, last>>

\* warp serves every request in a task of its own: get_equity_data calls get_market_data
HttpBegin ==
    /\ tasks["http"].pc = "idle"
    /\ tasks' = [tasks EXCEPT !["http"].pc = "get_market_data"]
    /\ UNCHANGED <<now, cache, quarterly, monthly, historical, last>>

\* the fundamentals pages all fail or all answer
WholeBatches == { pages \in AllPages : Failing(pages) \in { {}, PageNames } }

\* the call of a task returns: the job and the requests may call again
Return(c) ==
    /\ tasks[c].pc \in { "get_market_data", "resumed" }
    /\ \E faults \in Plans({ }) :
       \E s1 \in (IF cache.current_sp500_price = 0 THEN SpotAnswers ELSE { None }) :
       \E s2 \in (IF cache.timestamps.yahoo_price < now - SpotIntervalMinutes
                   THEN SpotAnswers ELSE { None }) :
       \E s3 \in (IF should_update_daily(now) THEN SpotAnswers ELSE { None }) :
       \E pages \in (IF should_update_daily(now) THEN WholeBatches ELSE { NoPages }) :
           \E r \in { get_market_data([spot_initial |-> s1, spot_interval |-> s2,
                                     spot_daily |-> s3, pages |-> pages], faults) } :
              /\ cache' = r.row
              /\ quarterly' = r.quarterly
              /\ monthly' = r.monthly
              /\ historical' = r.historical
              /\ last' = r.last
              /\ tasks' = [tasks EXCEPT ![c].pc = IF c = "catch_up" THEN "done" ELSE "idle"]
              /\ UNCHANGED now

CallersInit ==
    /\ now \in Instants
    /\ quarterly = ThreeQuarters
    /\ monthly = << >>
    /\ historical = << >>
    /\ \E t \in { now, now - MinutesPerDay } :
          cache = RawMarketCache(t, monthly,
                                 [tips |-> 0, bond |-> 0, tbill |-> 0, inflation |-> 0])
    /\ tasks = [NoTasks EXCEPT !["catch_up"].pc = "start"]
    /\ last = Idle

CallersNext ==
    \/ Tick
    \/ DailyJobBegin
    \/ CatchUpStart
    \/ HttpBegin
    \/ \E c \in Callers : Return(c)

SpecCallers == CallersInit /\ [][CallersNext]_vars

\* a step that is a call of get_market_data
SynchronizeStep == last' # last /\ last'.op = "get_market_data"

SpotCalls == { "spot_initial", "spot_interval", "spot_daily" }

\* C28: a call of get_market_data asks the spot-price source only when the cached
\* spot-price timestamp is more than 15 minutes older than now; with a newer
\* timestamp the call makes no spot-price fetch.
C28_SpotFetchOnlyWhenDue ==
    [][(SynchronizeStep /\ last'.called \cap SpotCalls # {})
       => cache.timestamps.yahoo_price < now - SpotIntervalMinutes]_vars

\* C32: a call of get_market_data that stores a newly fetched spot price, the price
\* of the market-close update included, leaves the spot-price timestamp at the
\* time of that fetch.
C32_SpotWriteStampsTime ==
    [][(SynchronizeStep /\ last'.faults = {} /\ last'.ok \cap SpotCalls # {})
       => cache'.timestamps.yahoo_price = now]_vars

\* a step in which the call of a task returns
ReturnStep ==
    \E c \in Callers : tasks[c].pc = "get_market_data" /\ tasks'[c].pc \in { "idle", "done" }

\* the call before this one fetched every fundamentals page on this Central day
BatchDoneToday ==
    /\ last.op = "get_market_data"
    /\ PageNames \subseteq last.ok
    /\ CentralDay(last.at) = CentralDay(now)

\* C29: once a call of get_market_data has fetched the fundamentals batch, no later
\* call of the same day fetches a fundamentals page.
C29_OneFundamentalsRefreshPerDay ==
    [][(ReturnStep /\ BatchDoneToday) => last'.called \cap PageNames = {}]_vars

\* C25: at most one execution of get_market_data is in flight at any time: the
\* daily job, the start-up catch-up task and the HTTP handler never run it together.
C25_OneSynchronizeInFlight == Cardinality(InFlight) <= 1

\* C36: the call of get_market_data that the start-up task makes, after 15:30
\* Central with the last spot update of an earlier day, runs the market-close
\* update: it fetches the daily close and every fundamentals page.
C36_CatchUpRunsDailyUpdate ==
    [][(tasks["catch_up"].pc = "get_market_data" /\ tasks'["catch_up"].pc = "done")
       => ({ "spot_daily" } \cup PageNames) \subseteq last'.called]_vars

---------------------------------------------------------------------------
(* The clients of the sources: services/equity.rs, services/treasury.rs *)

TreasuryTimeoutSeconds == 30

\* the requests get_market_data awaits
Awaited == { "fetch_sp500_price", "fetch_ycharts_value" }

\* the timeout of the client that sends the request of a source, if it has one
client_timeout(source) ==
    IF source = "fetch_tbill_data" THEN << TreasuryTimeoutSeconds >> ELSE << >>

\* the fetches get_market_data makes at this instant with this cache row
Due(source) ==
    IF source = "fetch_sp500_price"
    THEN \/ cache.current_sp500_price = 0
         \/ cache.timestamps.yahoo_price < now - SpotIntervalMinutes
         \/ should_update_daily(now)
    ELSE should_update_daily(now)

\* get_market_data has sent the request of a fetch and awaits the response
Await(c, source) ==
    /\ tasks[c].pc = "get_market_data"
    /\ Due(source)
    /\ tasks' = [tasks EXCEPT ![c].pc = source]
    /\ UNCHANGED <<now, cache, quarterly, monthly, historical, last>>

\* the source answers, well or badly, and get_market_data runs on with the answer
Respond(c) ==
    /\ tasks[c].pc \in Awaited
    /\ tasks' = [tasks EXCEPT ![c].pc = "resumed"]
    /\ UNCHANGED <<now, cache, quarterly, monthly, historical, last>>

\* a request task serves the T-bill route
TbillBegin ==
    /\ tasks["http"].pc = "idle"
    /\ tasks' = [tasks EXCEPT !["http"].pc = "get_tbill"]
    /\ UNCHANGED <<now, cache, quarterly, monthly, historical, last>>

\* get_tbill has sent the request for the CSV and awaits the response
TbillAwait ==
    /\ tasks["http"].pc = "get_tbill"
    /\ cache.timestamps.treasury_data < now - TreasuryIntervalMinutes
    /\ tasks' = [tasks EXCEPT !["http"].pc = "fetch_tbill_data"]
    /\ UNCHANGED <<now, cache, quarterly, monthly, historical, last>>

\* get_tbill runs to its end with the answer of the source
TbillReturns(answers) ==
    \E fetch \in answers, faults \in Plans({ }) :
        \E r \in { get_tbill(cache, fetch, faults) } :
           /\ cache' = r.row
           /\ last' = r.last
           /\ tasks' = [tasks EXCEPT !["http"].pc = "idle"]
           /\ UNCHANGED <<now, quarterly, monthly, historical>>

\* within the hour nothing is fetched and get_tbill returns
TbillReturn ==
    /\ tasks["http"].pc = "get_tbill"
    /\ ~(cache.timestamps.treasury_data < now - TreasuryIntervalMinutes)
    /\ TbillReturns({ None })

\* the source of the CSV answers, well or badly
TbillRespond ==
    /\ tasks["http"].pc = "fetch_tbill_data"
    /\ TbillReturns(RateAnswers)

\* the timeout of the client expires on a silent source: the fetch has failed
Expire(c) ==
    /\ tasks[c].pc \in Awaited \cup { "fetch_tbill_data" }
    /\ client_timeout(tasks[c].pc) # << >>
    /\ IF tasks[c].pc = "fetch_tbill_data"
       THEN TbillReturns({ None })
       ELSE /\ tasks' = [tasks EXCEPT ![c].pc = "resumed"]
            /\ UNCHANGED <<now, cache, quarterly, monthly, historical, last>>

\* 15:30 Central with the sources last read a day before; the start-up task is over
TimeoutsInit ==
    /\ now = InitDay * MinutesPerDay + CloseMinuteUtc
    /\ quarterly = ThreeQuarters
    /\ monthly = << >>
    /\ historical = << >>
    /\ cache = RawMarketCache(now - MinutesPerDay, monthly,
                              [tips |-> 0, bond |-> 0, tbill |-> 0, inflation |-> 0])
    /\ tasks = [NoTasks EXCEPT !["catch_up"].pc = "done"]
    /\ last = Idle

\* the calls and their requests within one instant of the clock
TimeoutsNext ==
    \/ DailyJobBegin
    \/ HttpBegin
    \/ TbillBegin
    \/ TbillAwait
    \/ TbillReturn
    \/ TbillRespond
    \/ \E c \in Callers : Return(c)
    \/ \E c \in Callers, source \in Awaited : Await(c, source)
    \/ \E c \in Callers : Respond(c)
    \/ \E c \in Callers : Expire(c)

\* a task that can go on does go on, and a timer that runs does expire; no source
\* is bound to answer.  Return(c) is enabled exactly while the task is in
\* get_market_data with no request outstanding, and every step of it leaves that
\* place, so weak fairness of Return(c) is the first conjunct below.
SpecTimeouts ==
    /\ TimeoutsInit
    /\ [][TimeoutsNext]_vars
    /\ \A c \in Callers : /\ []<>(tasks[c].pc \notin { "get_market_data", "resumed" })
                           /\ WF_vars(Expire(c))
    /\ WF_vars(TbillReturn)

\* C26: a call of get_market_data that has started returns in the end, whatever
\* source stays silent: every request it awaits is cut off by a timeout.
C26_SynchronizeReturns ==
    \A c \in Callers :
        (tasks[c].pc = "get_market_data") ~> (tasks[c].pc \in { "idle", "done" })

\* a request for the CSV that gets no answer is cut off and get_tbill returns
C26_TbillReturns ==
    (tasks["http"].pc = "fetch_tbill_data") ~> (tasks["http"].pc = "idle")

---------------------------------------------------------------------------
(* Requests that overlap: handlers/tbill.rs, handlers/inflation.rs *)

\* the request tasks of the two rate routes; each holds the handler's `cache`
Requests == { "get_tbill", "get_inflation" }

put_row_newest(stored, row) ==
    [stored EXCEPT
       !.tbill_yield = IF row.timestamps.treasury_data > stored.timestamps.treasury_data
                       THEN row.tbill_yield ELSE stored.tbill_yield,
       !.inflation_rate = IF row.timestamps.bls_data > stored.timestamps.bls_data
                          THEN row.inflation_rate ELSE stored.inflation_rate,
       !.timestamps.treasury_data =
            IF row.timestamps.treasury_data > stored.timestamps.treasury_data
            THEN row.timestamps.treasury_data ELSE stored.timestamps.treasury_data,
       !.timestamps.bls_data =
            IF row.timestamps.bls_data > stored.timestamps.bls_data
            THEN row.timestamps.bls_data ELSE stored.timestamps.bls_data]

\* SheetsStore::update_market_cache: the PUT of A2:L2 replaces the whole row
put_row(stored, row) == row

\* db.get_market_cache().await: the handler takes its copy of the row
ReadCache(r) ==
    /\ tasks[r].pc = "idle"
    /\ tasks' = [tasks EXCEPT ![r] = [pc |-> "read", cache |-> cache]]
    /\ UNCHANGED <<now, cache, quarterly, monthly, historical, last>>

\* the rest of the handler: test of the timestamp, fetch, write of the copy, reply
Refresh(r) ==
    /\ tasks[r].pc = "read"
    /\ \E fetch \in RateAnswers :
       \E h \in { IF r = "get_tbill" THEN get_tbill(tasks[r].cache, fetch, {})
                                     ELSE get_inflation(tasks[r].cache, fetch, {}) } :
          /\ cache' = IF Happened(h.last, "update_market_cache")
                      THEN put_row(cache, h.row) ELSE cache
          /\ last' = h.last
          /\ tasks' = [tasks EXCEPT ![r] = [pc |-> "idle", cache |-> h.row]]
          /\ UNCHANGED <<now, quarterly, monthly, historical>>

\* both timestamps are a day old and no rate has been fetched yet or both have
OverlapInit ==
    /\ now \in Instants
    /\ quarterly = << >>
    /\ monthly = << >>
    /\ historical = << >>
    /\ \E i \in InitRates :
          cache = RawMarketCache(InitTime - MinutesPerDay, monthly,
                                 [tips |-> 0, bond |-> 0, tbill |-> i, inflation |-> i])
    /\ tasks = [r \in Requests |-> [pc |-> "idle", cache |-> cache]]
    /\ last = Idle

OverlapNext ==
    \/ Tick
    \/ \E r \in Requests : ReadCache(r)
    \/ \E r \in Requests : Refresh(r)

SpecOverlap == OverlapInit /\ [][OverlapNext]_vars

\* the request that is not r
Other(r) == CHOOSE o \in Requests : o # r

\* C35: a handler that writes the row writes its whole copy: the value and the
\* timestamp of the other source in the store are afterwards the ones this handler
\* had read, whatever the other handler has written since.
C35_LastWriterWinsWholeRow ==
    [][\A r \in Requests :
          (/\ tasks[r].pc = "read" /\ tasks'[r].pc = "idle"
           /\ Happened(last', "update_market_cache"))
          => /\ cache'.tbill_yield = tasks'[r].cache.tbill_yield
             /\ cache'.inflation_rate = tasks'[r].cache.inflation_rate
             /\ r = "get_tbill"
                  => /\ cache'.inflation_rate = tasks[r].cache.inflation_rate
                     /\ cache'.timestamps.bls_data = tasks[r].cache.timestamps.bls_data
             /\ r = "get_inflation"
                  => /\ cache'.tbill_yield = tasks[r].cache.tbill_yield
                     /\ cache'.timestamps.treasury_data
                            = tasks[r].cache.timestamps.treasury_data]_vars

\* get_tbill has stored a newly fetched rate and its timestamp, and the write of
\* get_inflation, which had read the row before, has put the old ones back
C35_FetchedRateLost ==
    /\ last.op = "get_inflation"
    /\ Happened(last, "update_market_cache")
    /\ tasks["get_tbill"].pc = "idle"
    /\ tasks["get_inflation"].pc = "idle"
    /\ tasks["get_tbill"].cache.timestamps.treasury_data = now
    /\ tasks["get_tbill"].cache.tbill_yield = 3 * Unit
    /\ cache.timestamps.treasury_data < now
    /\ cache.tbill_yield # 3 * Unit
    /\ cache.timestamps.bls_data = now

---------------------------------------------------------------------------
(* The first day of a year: get_market_data with the backfill of the year before *)

\* the first minute of the year after the one the clock starts in
YearStart == (YearOf(InitTime) - BaseYear + 1) * MinutesPerYear

NewYearInstants == { YearStart + m : m \in Marks }

\* the close of the last day of the old year, as the call of that day stored it
YearClose == 4 * Unit

NewYearTick ==
    /\ \E t \in NewYearInstants : t > now /\ now' = t
    /\ UNCHANGED <<cache, quarterly, monthly, historical, last, tasks>>

\* the sheets as the calls of the old year left them; the row of that year is there
YearEndInit ==
    /\ now = YearStart + (CloseMinuteUtc - 60)
    /\ quarterly = ThreeQuarters
    /\ monthly = ElevenMonths
    /\ historical = << HistoricalRecord(YearOf(now) - 1) >>
    /\ cache = [RawMarketCache(YearStart - MinutesPerDay + CloseMinuteUtc, monthly,
                               [tips |-> 0, bond |-> 0, tbill |-> 0, inflation |-> 0])
                   EXCEPT !.daily_close_sp500_price = YearClose,
                          !.current_sp500_price = YearClose]
    /\ tasks = NoTasks
    /\ last = Idle

YearEndNext == NewYearTick \/ GetMarketData

SpecYearEnd == YearEndInit /\ [][YearEndNext]_vars

\* C37: the price in the record of the year before is a close fetched in that
\* year: it is never a price fetched after the year has turned.
C37_YearEndPriceFromItsYear ==
    YearRecord(historical).sp500_price \in { 0, YearClose }

\* C38: a call of get_market_data that fetches a CAPE whose period is December of
\* the year before ends with the record of that year holding the fetched CAPE.
C38_DecemberCapeReachesRecord ==
    [][(/\ SynchronizeStep
        /\ last'.faults = {}
        /\ "cape" \in last'.ok
        /\ cache'.cape_period.year = YearOf(now) - 1
        /\ cache'.cape_period.idx = 12)
       => YearRecord(historical').cape = cache'.current_cape]_vars

====
